---- MODULE Spec2Model ----
(***************************************************************************)
(* Model of coauthors2tex: the initials assignment (mk_initials), the      *)
(* fuzzy name matcher (xmatch_authors.main), the column check               *)
(* (check_columns) and the validation pipeline of general.main.            *)
(*                                                                         *)
(* A Python string is a sequence of one-character strings, so that         *)
(* slicing, splitting and prefix tests are computed as the code computes   *)
(* them.  A table cell holding a comma separated list is the sequence of   *)
(* its comma separated fields (the value cell.split(',') returns).         *)
(*                                                                         *)
(* The text main renders is a sequence of tokens: a blank, a newline, an   *)
(* ampersand and every character a replacement looks at is a token of its  *)
(* own, a LaTeX command or the placeholder {INITIALS} is one token.        *)
(***************************************************************************)
EXTENDS Integers, Sequences, FiniteSets, TLC

VARIABLES
    \* ---- mk_initials (src/general.py:294-358)
    first_names,      \* argument first_names
    last_names,       \* argument last_names, rewritten in place by the prefix removal
    arg_last_names,   \* history: last_names as passed by the caller
    initials,         \* local initials
    Nlast,            \* local Nlast
    duplicate,        \* local duplicate
    Nite,             \* local Nite
    reported,         \* initials[duplicate] as printed by the failure message
    mk_pc,            \* "idle", "loop", "returned", "exit", "IndexError"
    \* ---- check_columns (src/general.py:265-291)
    tbl_keys,         \* tbl.keys(), the table's column names in table order
    colnames,         \* argument colnames
    cc_pc,            \* "idle", "call", "returned", "exit"
    cc_error,         \* the column the error message names, and whether as missing or extra
    \* ---- the author roster built by get_tbl_authors (src/general.py:360-420)
    tbl_authors,
    \* ---- xmatch_authors.main (src/coauthors_to_tex/xmatch_authors.py:10-103)
    input_fields,     \* ' '.join(lines).split(','); <<>> when no line was entered
    ratio,            \* fuzz.token_sort_ratio on (normalized name, normalized author)
    score_min,        \* args.score_min
    sorted,           \* args.sort
    input_coauthors,  \* local input_coauthors
    matches,          \* local matches
    tbl_out,          \* local tbl_out, one record per row
    display,          \* the result lines printed by lines 79-91
    x_emitted,        \* whether line 97 printed the merged short names
    merged_short,     \* the entries of merged_short when it was printed
    x_error,          \* the exception that ended the run, "" if none
    x_pc,             \* "idle", "input", "match", "display", "emit", "done", "raised"
    \* ---- general.main (src/general.py:430-907)
    tbl_papers,       \* the papers table, one record per row
    ipaper,           \* local ipaper (from 0), -1 before the selection
    tbl_authors_paper,\* local tbl_authors_paper
    output,           \* local output, NoOutput until the author block is rendered
    m_warned,         \* paper keys of the 'empty author' messages of line 507
    m_error,          \* the error that ended the run and what its messages name
    tbl_columns,      \* the column names of the tables as read from the sheets
    tbl_affiliations, \* the affiliations table
    tbl_acknowledgements, \* the acknowledgements table
    INITIALS,         \* tbl_authors_paper['INITIALS']
    ackoutput,        \* local ackoutput
    file,             \* what was written to <paper key>_coauthors.tex, NoFile if nothing
    affil_country,    \* tbl_affiliations['COUNTRY'], <<>> before line 474
    author_country,   \* tbl_authors['COUNTRY'], <<>> before line 488
    displayed,        \* the author block printed by line 780, NoOutput if none
    m_pc              \* "idle", "columns", "countries", "roster_columns",
                      \* "author_countries", "styles", "authors_exist",
                      \* "roster_dup", "select", "affil_check", "ack_check",
                      \* "orcid_check", "build", "initials", "render", "rendered",
                      \* "acks_done", "done", "exit", "raised"

mkVars == <<first_names, last_names, arg_last_names, initials, Nlast,
            duplicate, Nite, reported, mk_pc>>

ccVars == <<tbl_keys, colnames, cc_pc, cc_error>>

xmVars == <<input_fields, ratio, score_min, sorted, input_coauthors, matches, tbl_out,
            display, x_emitted, merged_short, x_error, x_pc>>

mainVars == <<tbl_papers, ipaper, tbl_authors_paper, output, m_warned,
              m_error, tbl_columns, tbl_affiliations, tbl_acknowledgements,
              INITIALS, ackoutput, file,
              affil_country, author_country, displayed, m_pc>>

vars == <<mkVars, ccVars, tbl_authors, xmVars, mainVars>>

----------------------------------------------------------------------------
(* Bounds of the model *)

\* largest number of people handed to mk_initials
MaxPeople == 3

----------------------------------------------------------------------------
(* Python string primitives *)

Min(a, b) == IF a <= b THEN a ELSE b

\* str.lower() on the letters the model uses
LowerChar(c) ==
    CASE c = "D" -> "d"
      [] c = "E" -> "e"
      [] c = "A" -> "a"
      [] OTHER -> c

LowerStr(s) == [i \in 1..Len(s) |-> LowerChar(s[i])]

\* s.startswith(p)
StartsWith(s, p) == Len(s) >= Len(p) /\ SubSeq(s, 1, Len(p)) = p

\* s[n:]
DropChars(s, n) == SubSeq(s, n + 1, Len(s))

\* s[0:n]
TakeChars(s, n) == SubSeq(s, 1, Min(n, Len(s)))

\* c in s, for a one-character c
HasChar(s, c) == \E i \in 1..Len(s) : s[i] = c

\* s.split(sep) for a one-character sep: always at least one part
RECURSIVE SplitOn(_, _)
SplitOn(s, sep) ==
    IF ~HasChar(s, sep)
    THEN <<s>>
    ELSE LET k == CHOOSE i \in 1..Len(s) :
                     s[i] = sep /\ \A j \in 1..(i - 1) : s[j] # sep
         IN  <<SubSeq(s, 1, k - 1)>> \o SplitOn(SubSeq(s, k + 1, Len(s)), sep)

----------------------------------------------------------------------------
(* mk_initials *)

\* the iteration cap of `if Nite > 10`
MaxIte == 10

\* lines 310-313: the two prefix tests applied to one last name in one round
StripPrefixes(ln) ==
    LET a == IF StartsWith(LowerStr(ln), <<"d", "e", " ">>)
             THEN DropChars(ln, 3) ELSE ln
    IN  IF StartsWith(LowerStr(a), <<"d", "a", " ">>)
        THEN DropChars(a, 3) ELSE a

\* lines 318-326 raise IndexError when a part that is indexed with [0] is empty
FirstTokenRaises(fn) ==
    IF HasChar(fn, " ")
    THEN LET p == SplitOn(fn, " ") IN p[1] = <<>> \/ p[2] = <<>>
    ELSE IF HasChar(fn, "-")
    THEN LET p == SplitOn(fn, "-") IN p[1] = <<>> \/ p[2] = <<>>
    ELSE fn = <<>>

\* lines 318-326: the first-name token
FirstToken(fn) ==
    IF HasChar(fn, " ")
    THEN LET p == SplitOn(fn, " ") IN <<p[1][1], p[2][1]>>
    ELSE IF HasChar(fn, "-")
    THEN LET p == SplitOn(fn, "-") IN <<p[1][1], "-", p[2][1]>>
    ELSE <<fn[1]>>

\* lines 329-337: the last-name token at width w
LastToken(ln, w) ==
    IF HasChar(ln, " ")
    THEN LET p == SplitOn(ln, " ") IN TakeChars(p[1], w) \o TakeChars(p[2], w)
    ELSE IF HasChar(ln, "-")
    THEN LET p == SplitOn(ln, "-")
         IN  TakeChars(p[1], w) \o <<"-">> \o TakeChars(p[2], w)
    ELSE TakeChars(ln, w)

\* lines 316-337 for one person
Label(fn, ln, w) == FirstToken(fn) \o LastToken(ln, w)

\* lines 340-345 with the inner loop starting at i + 2: neighbours are not compared
DuplicatesSkipNeighbour(labels) ==
    [i \in 1..Len(labels) |->
        \E j \in 1..Len(labels) :
            (j > i + 1 \/ i > j + 1) /\ labels[i] = labels[j]]

\* lines 340-345: the duplicate flags of a list of labels
Duplicates(labels) ==
    [i \in 1..Len(labels) |->
        \E j \in 1..Len(labels) : j # i /\ labels[i] = labels[j]]

\* `True in duplicate`
AnyDuplicate(dup) == \E i \in 1..Len(dup) : dup[i]

\* initials[duplicate]
Masked(labels, dup) ==
    LET RECURSIVE pick(_)
        pick(i) == IF i > Len(labels) THEN <<>>
                   ELSE (IF dup[i] THEN <<labels[i]>> ELSE <<>>) \o pick(i + 1)
    IN  pick(1)

\* ten letters shared by the two long last names
LongStem == [i \in 1..10 |-> "m"]

\* the people the model hands to mk_initials (first name, last name):
\* "a"/"xy", "a"/"xz", "a"/"de da xy", "a"/"De de xz", "a c"/"x-y",
\* "a-c"/"x z", "c"/"xy", "a-"/"xy", two people whose last names of
\* eleven letters differ in the last letter only, and "a-c-e"/"x y z"
PeoplePool ==
    { [first |-> <<"a">>, last |-> <<"x", "y">>],
      [first |-> <<"a">>, last |-> <<"x", "z">>],
      [first |-> <<"a">>, last |-> <<"d", "e", " ", "d", "a", " ", "x", "y">>],
      [first |-> <<"a">>, last |-> <<"D", "e", " ", "d", "e", " ", "x", "z">>],
      [first |-> <<"a", " ", "c">>, last |-> <<"x", "-", "y">>],
      [first |-> <<"a", "-", "c">>, last |-> <<"x", " ", "z">>],
      [first |-> <<"c">>, last |-> <<"x", "y">>],
      [first |-> <<"a", "-">>, last |-> <<"x", "y">>],
      [first |-> <<"a">>, last |-> LongStem \o <<"p">>],
      [first |-> <<"a">>, last |-> LongStem \o <<"q">>],
      [first |-> <<"a", "-", "c", "-", "e">>,
       last |-> <<"x", " ", "y", " ", "z">>] }

\* mk_initials is not running
MkIdle ==
    /\ first_names = <<>> /\ last_names = <<>> /\ arg_last_names = <<>>
    /\ initials = <<>> /\ Nlast = <<>> /\ duplicate = <<>>
    /\ Nite = 0 /\ reported = <<>> /\ mk_pc = "idle"

\* lines 302-305, on entry
MkInit ==
    \E n \in 0..MaxPeople :
        \E people \in [1..n -> PeoplePool] :
            /\ first_names = [i \in 1..n |-> people[i].first]
            /\ last_names = [i \in 1..n |-> people[i].last]
            /\ arg_last_names = last_names
            /\ initials = [i \in 1..n |-> <<>>]
            /\ Nlast = [i \in 1..n |-> 1]
            /\ duplicate = [i \in 1..n |-> TRUE]
            /\ Nite = 0
            /\ reported = <<>>
            /\ mk_pc = "loop"

\* line 347 widening every person as soon as one label collides
WidenAll(N, dup) ==
    [i \in 1..Len(N) |-> IF AnyDuplicate(dup) THEN N[i] + 1 ELSE N[i]]

\* line 347: Nlast[duplicate] += 1
Widen(N, dup) == [i \in 1..Len(N) |-> IF dup[i] THEN N[i] + 1 ELSE N[i]]

\* lines 339-356: the end of a round, from the labels just generated
MkCheckAndWiden(stripped, labels) ==
    LET dup == Duplicates(labels) IN
    /\ last_names' = stripped
    /\ initials' = labels
    /\ duplicate' = dup
    /\ Nlast' = Widen(Nlast, dup)
    /\ Nite' = Nite + 1
    /\ IF Nite + 1 > MaxIte
       THEN mk_pc' = "exit" /\ reported' = Masked(labels, dup)
       ELSE mk_pc' = "loop" /\ reported' = reported

\* lines 307-356: one pass of the while loop
MkRound ==
    /\ mk_pc = "loop"
    /\ AnyDuplicate(duplicate)
    /\ LET n == Len(first_names)
           stripped == [i \in 1..n |-> StripPrefixes(last_names[i])]
           bad == {i \in 1..n : FirstTokenRaises(first_names[i])}
           labels == [i \in 1..n |->
                         Label(first_names[i], stripped[i], Nlast[i])]
       IN  IF bad # {}
           THEN LET k == CHOOSE i \in bad : \A j \in bad : i <= j IN
                /\ last_names' = stripped
                /\ initials' = [i \in 1..n |->
                                   IF i < k THEN labels[i] ELSE initials[i]]
                /\ mk_pc' = "IndexError"
                /\ UNCHANGED <<Nlast, duplicate, Nite, reported>>
           ELSE MkCheckAndWiden(stripped, labels)
    /\ UNCHANGED <<first_names, arg_last_names>>
    /\ UNCHANGED <<ccVars, tbl_authors, xmVars, mainVars>>

\* lines 307 and 358: the loop condition is false, initials is returned
MkReturn ==
    /\ mk_pc = "loop"
    /\ ~AnyDuplicate(duplicate)
    /\ mk_pc' = "returned"
    /\ UNCHANGED <<first_names, last_names, arg_last_names, initials, Nlast,
                   duplicate, Nite, reported>>
    /\ UNCHANGED <<ccVars, tbl_authors, xmVars, mainVars>>

----------------------------------------------------------------------------
(* check_columns *)

\* the elements of a list
Range(seq) == {seq[i] : i \in 1..Len(seq)}

\* the column names the model uses
ColumnNames == {"AUTHOR", "SHORTNAME", "ORCID"}

\* every list of distinct column names
ColumnLists ==
    UNION {{q \in [1..n -> ColumnNames] :
               \A i, j \in 1..n : i # j => q[i] # q[j]} :
           n \in 0..Cardinality(ColumnNames)}

\* check_columns is not running
CcIdle ==
    /\ tbl_keys = <<>> /\ colnames = <<>> /\ cc_pc = "idle"
    /\ cc_error = [kind |-> "none", col |-> ""]

\* a call check_columns(tbl, colnames)
CcInit ==
    /\ tbl_keys \in ColumnLists
    /\ colnames \in ColumnLists
    /\ cc_pc = "call"
    /\ cc_error = [kind |-> "none", col |-> ""]

\* the first element of seq, in list order, that is not in the list other
FirstNotIn(seq, other) ==
    seq[CHOOSE i \in 1..Len(seq) :
            /\ seq[i] \notin Range(other)
            /\ \A j \in 1..(i - 1) : seq[j] \in Range(other)]

\* lines 274-291 without the loop over tbl.keys(): extra columns are accepted
CcOutcomeNoExtraLoop(keys, cols) ==
    IF \E c \in Range(cols) : c \notin Range(keys)
    THEN [pc |-> "exit", kind |-> "missing", col |-> FirstNotIn(cols, keys)]
    ELSE [pc |-> "returned", kind |-> "none", col |-> ""]

\* lines 274-291: how the call ends
CcOutcome(keys, cols) ==
    IF \E c \in Range(cols) : c \notin Range(keys)
    THEN [pc |-> "exit", kind |-> "missing", col |-> FirstNotIn(cols, keys)]
    ELSE IF \E c \in Range(keys) : c \notin Range(cols)
    THEN [pc |-> "exit", kind |-> "extra", col |-> FirstNotIn(keys, cols)]
    ELSE [pc |-> "returned", kind |-> "none", col |-> ""]

\* lines 265-291
CheckColumns ==
    /\ cc_pc = "call"
    /\ LET r == CcOutcome(tbl_keys, colnames) IN
       /\ cc_pc' = r.pc
       /\ cc_error' = [kind |-> r.kind, col |-> r.col]
    /\ UNCHANGED <<tbl_keys, colnames>>
    /\ UNCHANGED <<mkVars, tbl_authors, xmVars, mainVars>>

----------------------------------------------------------------------------
(* xmatch_authors.main *)

\* SCORE_MIN = 80
SCORE_MIN == 80

\* the 'NO MATCH' short-code of line 65
NoMatch == "NO MATCH"

\* most entered names
MaxNames == 2

\* str.strip() of leading blanks
RECURSIVE LStrip(_)
LStrip(s) == IF s # <<>> /\ s[1] = " " THEN LStrip(Tail(s)) ELSE s

\* str.strip() of trailing blanks
RECURSIVE RStrip(_)
RStrip(s) ==
    IF s # <<>> /\ s[Len(s)] = " " THEN RStrip(SubSeq(s, 1, Len(s) - 1)) ELSE s

\* str.strip()
Strip(s) == LStrip(RStrip(s))

\* lower() then NFD without the combining marks, on one character;
\* "o_uml" stands for an o with diaeresis
NormalizeChar(c) ==
    CASE c = "B" -> "b"
      [] c = "A" -> "a"
      [] c = "o_uml" -> "o"
      [] OTHER -> c

\* general.normalize_name
normalize_name(name) == [i \in 1..Len(name) |-> NormalizeChar(name[i])]

\* the fields a user types: "b", "bo", " Bö", "al" and the empty field
FieldPool ==
    { <<"b">>, <<"b", "o">>, <<" ", "B", "o_uml">>, <<"a", "l">>, <<>> }

\* the roster the matcher reads; AUTHOR is the display name
RosterList ==
    << [AUTHOR |-> <<"B", "o">>, SHORTNAME |-> "a1",
        First_Name |-> <<"a">>, Last_Name |-> <<"x", "y">>,
        ORCID |-> <<>>, EMAIL |-> "bo@x",
        AFFILIATIONS |-> << <<"x">>, <<"y">> >>,
        ACKNOWLEDGEMENTS |-> << <<"0">> >>],
       [AUTHOR |-> <<"A", "l">>, SHORTNAME |-> "a2",
        First_Name |-> <<"a">>, Last_Name |-> <<"x", "z">>,
        ORCID |-> <<>>, EMAIL |-> "al@x",
        AFFILIATIONS |-> << <<"x">> >>,
        ACKNOWLEDGEMENTS |-> << <<"0">> >>] >>

\* the scores the scorer may return around the threshold
ScoreValues == {SCORE_MIN - 20, SCORE_MIN, SCORE_MIN + 20}

\* the names of the fields that survive lines 51-53, normalized
QueryPool ==
    {normalize_name(Strip(f)) : f \in {g \in FieldPool : Len(Strip(g)) > 1}}

\* xmatch_authors.main is not running
XmIdle ==
    /\ input_fields = <<>> /\ ratio = <<>> /\ score_min = SCORE_MIN
    /\ sorted = FALSE
    /\ input_coauthors = <<>> /\ matches = <<>> /\ tbl_out = <<>>
    /\ display = <<>> /\ x_emitted = FALSE /\ merged_short = <<>>
    /\ x_error = "" /\ x_pc = "idle"

\* the code point of a character of the roster's last names
CodePoint(c) ==
    CASE c = " " -> 32
      [] c = "-" -> 45
      [] c = "D" -> 68
      [] c = "a" -> 97
      [] c = "d" -> 100
      [] c = "e" -> 101
      [] c = "x" -> 120
      [] c = "y" -> 121
      [] c = "z" -> 122

\* a < b on Python strings: the first differing character decides, a proper
\* prefix is smaller
StrLess(a, b) ==
    \E k \in 1..Len(b) :
        /\ \A j \in 1..(k - 1) : j <= Len(a) /\ a[j] = b[j]
        /\ k > Len(a) \/ CodePoint(a[k]) < CodePoint(b[k])

\* tbl[np.argsort(tbl['Last Name'])]; rows with equal names keep their order
SortByLastName(tbl) ==
    LET before(j, k) ==
            \/ StrLess(tbl[j].Last_Name, tbl[k].Last_Name)
            \/ tbl[j].Last_Name = tbl[k].Last_Name /\ j < k
        place(k) == Cardinality({j \in 1..Len(tbl) : before(j, k)}) + 1
    IN  [p \in 1..Len(tbl) |-> tbl[CHOOSE k \in 1..Len(tbl) : place(k) = p]]

\* tbl_out[np.argsort(tbl_out['ID'])]; rows with equal ID keep their order
SortByID(tbl) ==
    LET before(j, k) ==
            tbl[j].ID < tbl[k].ID \/ (tbl[j].ID = tbl[k].ID /\ j < k)
        place(k) == Cardinality({j \in 1..Len(tbl) : before(j, k)}) + 1
    IN  [p \in 1..Len(tbl) |-> tbl[CHOOSE k \in 1..Len(tbl) : place(k) = p]]

\* the rosters the sheet may hold: the first rows of RosterList, or its two
\* rows in the other order
RosterOrders ==
    {SubSeq(RosterList, 1, r) : r \in 0..Len(RosterList)}
        \cup { <<RosterList[2], RosterList[1]>> }

\* lines 10-38: the flags are parsed, the roster is read and, with --sort,
\* ordered by last name; the prompt is next
XmInit ==
    /\ sorted \in BOOLEAN
    /\ \E roster \in RosterOrders :
          tbl_authors = IF sorted THEN SortByLastName(roster) ELSE roster
    /\ \E n \in 0..MaxNames :
          /\ input_fields \in [1..n -> FieldPool]
          \* a line is kept only if it is not blank
          /\ n = 1 => Strip(input_fields[1]) # <<>>
    /\ ratio \in [QueryPool \X {normalize_name(a.AUTHOR) : a \in Range(tbl_authors)}
                     -> ScoreValues]
    /\ score_min = SCORE_MIN
    /\ input_coauthors = <<>> /\ matches = <<>> /\ tbl_out = <<>>
    /\ display = <<>> /\ x_emitted = FALSE /\ merged_short = <<>>
    /\ x_error = "" /\ x_pc = "input"

\* a list comprehension with a filter
RECURSIVE KeepLong(_)
KeepLong(names) ==
    IF names = <<>> THEN <<>>
    ELSE (IF Len(Head(names)) > 1 THEN <<Head(names)>> ELSE <<>>)
         \o KeepLong(Tail(names))

\* lines 40-53: read the lines, split at commas, strip, drop the short names
XReadInput ==
    /\ x_pc = "input"
    /\ IF input_fields = <<>>
       THEN \* `if lines:` is false and line 51 reads an unbound local
            /\ x_pc' = "raised" /\ x_error' = "UnboundLocalError"
            /\ UNCHANGED input_coauthors
       ELSE /\ input_coauthors' =
                   KeepLong([i \in 1..Len(input_fields) |-> Strip(input_fields[i])])
            /\ x_pc' = "match" /\ UNCHANGED x_error
    /\ UNCHANGED <<input_fields, ratio, score_min, sorted, matches, tbl_out, display,
                   x_emitted, merged_short>>
    /\ UNCHANGED <<mkVars, ccVars, tbl_authors, mainVars>>

\* process.extractOne(norm_name, normalized_authors, scorer): the position
\* (from 1) of the first choice with the highest score
extractOne(norm_name, normalized_authors) ==
    CHOOSE i \in 1..Len(normalized_authors) :
        /\ \A j \in 1..Len(normalized_authors) :
              ratio[<<norm_name, normalized_authors[j]>>]
                  <= ratio[<<norm_name, normalized_authors[i]>>]
        /\ \A j \in 1..(i - 1) :
              ratio[<<norm_name, normalized_authors[j]>>]
                  < ratio[<<norm_name, normalized_authors[i]>>]

\* line 65 with `>=` in place of `>`
matched_shortname_ge(score, idx) ==
    IF score >= score_min THEN tbl_authors[idx].SHORTNAME ELSE NoMatch

\* line 65
matched_shortname(score, idx) ==
    IF score > score_min THEN tbl_authors[idx].SHORTNAME ELSE NoMatch

\* lines 61-66 for one name
MatchOne(name) ==
    LET normalized_authors ==
            [i \in 1..Len(tbl_authors) |-> normalize_name(tbl_authors[i].AUTHOR)]
        norm_name == normalize_name(name)
        idx == extractOne(norm_name, normalized_authors)
        score == ratio[<<norm_name, normalized_authors[idx]>>]
    IN  [INPUT_NAMES |-> name,
         MATCHED_AUTHOR |-> tbl_authors[idx].AUTHOR,
         SHORTNAME |-> matched_shortname(score, idx),
         SCORE |-> score,
         ID |-> idx]

\* lines 55-76
XMatch ==
    /\ x_pc = "match"
    /\ IF input_coauthors # <<>> /\ tbl_authors = <<>>
       THEN \* extractOne returns None when there is no choice; line 62 unpacks it
            /\ x_pc' = "raised" /\ x_error' = "TypeError"
            /\ UNCHANGED <<matches, tbl_out>>
       ELSE /\ matches' = [k \in 1..Len(input_coauthors) |-> MatchOne(input_coauthors[k])]
            /\ tbl_out' = IF sorted THEN SortByID(matches') ELSE matches'
            /\ x_pc' = "display" /\ UNCHANGED x_error
    /\ UNCHANGED <<input_fields, ratio, score_min, sorted, input_coauthors, display,
                   x_emitted, merged_short>>
    /\ UNCHANGED <<mkVars, ccVars, tbl_authors, mainVars>>

\* lines 88-91: the line printed for one match
DisplayLine(m) ==
    [ext_name |-> m.INPUT_NAMES,
     author |-> IF m.SHORTNAME = NoMatch
                THEN <<"?", " ">> \o m.MATCHED_AUTHOR \o <<" ", "?">>
                ELSE m.MATCHED_AUTHOR,
     shortname |-> m.SHORTNAME,
     score |-> m.SCORE,
     color |-> IF m.SCORE < score_min THEN "red" ELSE "green"]

\* lines 78-91
XDisplay ==
    /\ x_pc = "display"
    /\ display' = [k \in 1..Len(matches) |-> DisplayLine(matches[k])]
    /\ x_pc' = "emit"
    /\ UNCHANGED <<input_fields, ratio, score_min, sorted, input_coauthors, matches,
                   tbl_out, x_emitted, merged_short, x_error>>
    /\ UNCHANGED <<mkVars, ccVars, tbl_authors, mainVars>>

\* lines 93-103
XEmit ==
    /\ x_pc = "emit"
    /\ IF tbl_out = <<>>
       THEN \* np.min of an empty column raises
            /\ x_pc' = "raised" /\ x_error' = "ValueError"
            /\ UNCHANGED <<x_emitted, merged_short>>
       ELSE IF \A k \in 1..Len(tbl_out) : tbl_out[k].SCORE > score_min
       THEN /\ x_emitted' = TRUE
            /\ merged_short' = [k \in 1..Len(tbl_out) |-> tbl_out[k].SHORTNAME]
            /\ x_pc' = "done" /\ UNCHANGED x_error
       ELSE /\ x_pc' = "done"
            /\ UNCHANGED <<x_emitted, merged_short, x_error>>
    /\ UNCHANGED <<input_fields, ratio, score_min, sorted, input_coauthors, matches,
                   tbl_out, display>>
    /\ UNCHANGED <<mkVars, ccVars, tbl_authors, mainVars>>

----------------------------------------------------------------------------
(* general.main: the checks, the rendering, the acknowledgements, the file *)

\* constants.ALLOWED_PAPER_STYLES
ALLOWED_PAPER_STYLES == {"AJ", "AANDA"}

\* most rows of the papers table
MaxPapers == 2

\* output before the author block is rendered
NoOutput == <<"(not rendered)">>

\* <paper key>_coauthors.tex was not opened
NoFile == [written |-> FALSE, name |-> 0, content |-> <<>>]

\* no error
NoError == [kind |-> "none", names |-> <<>>]

\* str.upper() on the styles the model uses
Upper(style) ==
    CASE style = "aanda" -> "AANDA"
      [] style = "aj" -> "AJ"
      [] OTHER -> style

\* the STYLE cells a papers table may hold
StylePool == {"AJ", "aanda", "XX"}

\* the 'author list' cells a papers table may hold, as author.split(',') sees
\* them: "a1", "a1,a2", "a2,a1", "a1,zz", "zz,a1,yy", "a1,,a2", "a1,a2,", "a1,a1"
AuthorListPool ==
    { <<"a1">>, <<"a1", "a2">>, <<"a2", "a1">>, <<"a1", "zz">>,
      <<"zz", "a1", "yy">>, <<"a1", "", "a2">>, <<"a1", "a2", "">>,
      <<"a1", "a1">> }

\* the keys of the papers, by row
PaperKeys == [i \in 1..(MaxPapers + 1) |-> i]

\* the rosters get_tbl_authors may return: the prefixes of RosterList and a
\* roster that holds one short-code twice
MainRosters ==
    {SubSeq(RosterList, 1, r) : r \in 0..Len(RosterList)}
        \cup {RosterList \o <<RosterList[1]>>}

\* the column names main and get_tbl_authors require of each table
RequiredColumns ==
    [papers |-> <<"paper key", "STYLE", "ACKNOWLEDGEMENTS", "author list",
                  "Program ID", "Overleaf Link">>,
     affiliations |-> <<"SHORTNAME", "AFFILIATION">>,
     authors |-> <<"AUTHOR", "Last Name", "First Name", "ORCID", "EMAIL",
                   "SHORTNAME", "AFFILIATIONS", "Program ID",
                   "ACKNOWLEDGEMENTS">>,
     acknowledgements |-> <<"ACKNOWLEDGEMENTS", "ACKNOWLEDGEMENTS_TEXT">>]

\* the tables check_columns is called on, in the order of the calls
TableNames == <<"papers", "affiliations", "authors", "acknowledgements">>

\* the column sets the sheets may have: the required ones, or one table with
\* its first column missing, or one table with a column more
ColumnSets ==
    {RequiredColumns}
        \cup {[RequiredColumns EXCEPT ![t] = Tail(@)] :
                 t \in DOMAIN RequiredColumns}
        \cup {[RequiredColumns EXCEPT ![t] = Append(@, "NOTES")] :
                 t \in DOMAIN RequiredColumns}

\* the affiliations table: "x" and "y"
AffiliationList ==
    << [SHORTNAME |-> <<"x">>, AFFILIATION |-> <<"InstX", ",", " ", "Canada">>],
       [SHORTNAME |-> <<"y">>, AFFILIATION |-> <<"InstY", ",", " ", "Chile">>] >>

\* the acknowledgements table: the author-level codes "A" and "AB", whose
\* texts hold the placeholder, and the code "P", whose text does not
AcknowledgementList ==
    << [ACKNOWLEDGEMENTS |-> <<"A">>,
        ACKNOWLEDGEMENTS_TEXT |-> <<"{INITIALS}", "t", "h", "a", "n", "k", " ", "A", ".">>],
       [ACKNOWLEDGEMENTS |-> <<"A", "B">>,
        ACKNOWLEDGEMENTS_TEXT |-> <<"{INITIALS}", "t", "h", "a", "n", "k", " ", "A", "B", ".">>],
       [ACKNOWLEDGEMENTS |-> <<"P">>,
        ACKNOWLEDGEMENTS_TEXT |-> <<"F", "u", "n", "d", "e_acute", ".">>] >>

\* the cell "0": no acknowledgement
NoAck == << <<"0">> >>

\* general.main is not running
MainIdle ==
    /\ tbl_papers = <<>> /\ ipaper = -1 /\ tbl_authors_paper = <<>>
    /\ output = NoOutput /\ m_warned = <<>> /\ m_error = NoError
    /\ tbl_columns = RequiredColumns
    /\ tbl_affiliations = <<>> /\ tbl_acknowledgements = <<>>
    /\ INITIALS = <<>> /\ ackoutput = <<>> /\ file = NoFile
    /\ affil_country = <<>> /\ author_country = <<>> /\ displayed = NoOutput
    /\ m_pc = "idle"

\* nothing is checked or produced yet
MainFresh ==
    /\ ipaper = -1 /\ tbl_authors_paper = <<>>
    /\ output = NoOutput /\ m_warned = <<>> /\ m_error = NoError
    /\ INITIALS = <<>> /\ ackoutput = <<>> /\ file = NoFile
    /\ affil_country = <<>> /\ author_country = <<>> /\ displayed = NoOutput
    /\ m_pc = "columns"

\* lines 441-445: the sheets are read, nothing is checked or produced yet
MainStart ==
    /\ tbl_affiliations = AffiliationList
    /\ tbl_acknowledgements = AcknowledgementList
    /\ MainFresh

\* the sheets have the required columns; the papers and the roster vary
MainInit ==
    /\ tbl_authors \in MainRosters
    /\ \E n \in 0..MaxPapers :
          \E styles \in [1..n -> StylePool], lists \in [1..n -> AuthorListPool] :
              tbl_papers = [i \in 1..n |->
                               [key |-> PaperKeys[i], STYLE |-> styles[i],
                                author_list |-> lists[i],
                                ACKNOWLEDGEMENTS |-> NoAck]]
    /\ tbl_columns = RequiredColumns
    /\ MainStart

\* the tables that never change after they are read
mTables == <<tbl_papers, tbl_columns, tbl_affiliations, tbl_acknowledgements>>

\* what the run builds after the paper was selected
mProducts == <<tbl_authors_paper, INITIALS, output, ackoutput, file>>

\* the COUNTRY columns main adds to the affiliations and to the roster
mCountries == <<affil_country, author_country>>

\* the run ends in exit() after messages of the given kind naming `names`
MainExit(kind, names) ==
    /\ m_pc' = "exit"
    /\ m_error' = [kind |-> kind, names |-> names]

\* the run ends in an exception that nothing catches
MainRaise(kind, names) ==
    /\ m_pc' = "raised"
    /\ m_error' = [kind |-> kind, names |-> names]

\* the first table of the list tables, from position k on, whose columns
\* check_columns rejects, as <<table, column>>; <<>> if there is none
RECURSIVE FirstBadTable(_, _, _)
FirstBadTable(columns, tables, k) ==
    IF k > Len(tables) THEN <<>>
    ELSE LET r == CcOutcome(columns[tables[k]], RequiredColumns[tables[k]])
         IN  IF r.pc = "exit" THEN <<tables[k], r.col>>
             ELSE FirstBadTable(columns, tables, k + 1)

\* lines 447-459: the columns of the papers and of the affiliations
MCheckColumns ==
    /\ m_pc = "columns"
    /\ LET bad == FirstBadTable(tbl_columns, SubSeq(TableNames, 1, 2), 1)
       IN  IF bad # <<>>
           THEN MainExit("SchemaMismatch", bad)
           ELSE m_pc' = "countries" /\ UNCHANGED m_error
    /\ UNCHANGED <<mTables, mProducts, ipaper, m_warned>>
    /\ UNCHANGED <<mkVars, ccVars, tbl_authors, xmVars, mCountries, displayed>>

\* a part of general.country_list(): 'Canada', 'Chile', 'Congo' and
\* 'Korea, Republic of'
country_list ==
    { <<"Canada">>, <<"Chile">>, <<"Congo">>,
      <<"Korea", ",", " ", "Republic", " ", "of">> }

\* v.split(', ')[-1]: the text after the last comma that a blank follows,
\* the whole text if there is none
LastField(v) ==
    LET seps == {k \in 1..(Len(v) - 1) : v[k] = "," /\ v[k + 1] = " "}
    IN  IF seps = {} THEN v
        ELSE LET k == CHOOSE m \in seps : \A n \in seps : n <= m
             IN  SubSeq(v, k + 2, Len(v))

\* line 465
CountriesOf(affiliations) ==
    [i \in 1..Len(affiliations) |-> LastField(affiliations[i].AFFILIATION)]

\* lines 461-474: the first affiliation whose country is not valid ends the
\* run with messages that show its text and the country
MCheckCountries ==
    /\ m_pc = "countries"
    /\ LET countries == CountriesOf(tbl_affiliations)
           bad == {i \in 1..Len(countries) : countries[i] \notin country_list}
       IN  IF bad # {}
           THEN LET i == CHOOSE k \in bad : \A n \in bad : k <= n IN
                /\ MainExit("InvalidCountry",
                            <<tbl_affiliations[i].AFFILIATION, countries[i]>>)
                /\ UNCHANGED affil_country
           ELSE /\ affil_country' = countries
                /\ m_pc' = "roster_columns" /\ UNCHANGED m_error
    /\ UNCHANGED <<mTables, mProducts, ipaper, m_warned, author_country>>
    /\ UNCHANGED <<mkVars, ccVars, tbl_authors, xmVars, displayed>>

\* get_tbl_authors, lines 376-400: the columns of the authors and of the
\* acknowledgements
MCheckRosterColumns ==
    /\ m_pc = "roster_columns"
    /\ LET bad == FirstBadTable(tbl_columns, SubSeq(TableNames, 3, 4), 1)
       IN  IF bad # <<>>
           THEN MainExit("SchemaMismatch", bad)
           ELSE m_pc' = "author_countries" /\ UNCHANGED m_error
    /\ UNCHANGED <<mTables, mProducts, ipaper, m_warned>>
    /\ UNCHANGED <<mkVars, ccVars, tbl_authors, xmVars, mCountries, displayed>>

\* (tbl_affiliations['SHORTNAME'] == code).argmax(), from 1: the first row
\* with this code, the first row of the table if no row has it
ArgmaxRow(affiliations, code) ==
    LET rows == {r \in 1..Len(affiliations) : affiliations[r].SHORTNAME = code}
    IN  IF rows = {} THEN 1 ELSE CHOOSE r \in rows : \A q \in rows : r <= q

\* lines 482-487: the countries of one AFFILIATIONS cell; np.unique leaves
\* each country once
CountriesOfAuthor(cell, affiliations, countries) ==
    {countries[ArgmaxRow(affiliations, Strip(cell[k]))] : k \in 1..Len(cell)}

\* lines 480-488: the COUNTRY column of the roster
MAuthorCountries ==
    /\ m_pc = "author_countries"
    /\ author_country' =
           [i \in 1..Len(tbl_authors) |->
               CountriesOfAuthor(tbl_authors[i].AFFILIATIONS, tbl_affiliations,
                                 affil_country)]
    /\ m_pc' = "styles"
    /\ UNCHANGED <<mTables, mProducts, ipaper, m_warned, m_error, affil_country>>
    /\ UNCHANGED <<mkVars, ccVars, tbl_authors, xmVars, displayed>>

\* lines 490-499: the first style that is not allowed ends the run
MCheckStyles ==
    /\ m_pc = "styles"
    /\ LET bad == {i \in 1..Len(tbl_papers) :
                      Upper(tbl_papers[i].STYLE) \notin ALLOWED_PAPER_STYLES}
       IN  IF bad # {}
           THEN MainExit("UnresolvedStyle",
                         <<tbl_papers[CHOOSE i \in bad : \A j \in bad : i <= j].STYLE>>)
           ELSE m_pc' = "authors_exist" /\ UNCHANGED m_error
    /\ UNCHANGED <<mTables, mProducts, ipaper, m_warned>>
    /\ UNCHANGED <<mkVars, ccVars, tbl_authors, xmVars, mCountries, displayed>>

\* the SHORTNAME column of a roster
ShortNames(roster) == {roster[i].SHORTNAME : i \in 1..Len(roster)}

\* lines 505-516 for the entries of one paper from position k on: the
\* (paper key, entry) pairs reported as not in the list of authors
RECURSIVE UnknownInList(_, _, _, _)
UnknownInList(key, authors, k, roster) ==
    IF k > Len(authors) THEN <<>>
    ELSE (IF authors[k] # "" /\ authors[k] \notin ShortNames(roster)
          THEN <<[paper |-> key, author |-> authors[k]]>>
          ELSE <<>>)
         \o UnknownInList(key, authors, k + 1, roster)

\* lines 505-509 for one paper: one 'empty author' message per empty entry
RECURSIVE EmptyInList(_, _, _)
EmptyInList(key, authors, k) ==
    IF k > Len(authors) THEN <<>>
    ELSE (IF authors[k] = "" THEN <<key>> ELSE <<>>)
         \o EmptyInList(key, authors, k + 1)

\* lines 503-516 stopping after the first paper
RECURSIVE UnknownAuthorsFirstPaperOnly(_, _, _)
UnknownAuthorsFirstPaperOnly(papers, i, roster) ==
    IF i > Len(papers) \/ i > 1 THEN <<>>
    ELSE UnknownInList(papers[i].key, papers[i].author_list, 1, roster)

\* lines 503-516 over the papers from row i on
RECURSIVE UnknownAuthors(_, _, _)
UnknownAuthors(papers, i, roster) ==
    IF i > Len(papers) THEN <<>>
    ELSE UnknownInList(papers[i].key, papers[i].author_list, 1, roster)
         \o UnknownAuthors(papers, i + 1, roster)

\* lines 503-509 over the papers from row i on
RECURSIVE EmptyAuthors(_, _)
EmptyAuthors(papers, i) ==
    IF i > Len(papers) THEN <<>>
    ELSE EmptyInList(papers[i].key, papers[i].author_list, 1)
         \o EmptyAuthors(papers, i + 1)

\* lines 501-518: every author of every paper must be in the roster
MCheckAuthorsExist ==
    /\ m_pc = "authors_exist"
    /\ m_warned' = EmptyAuthors(tbl_papers, 1)
    /\ LET bad == UnknownAuthors(tbl_papers, 1, tbl_authors)
       IN  IF bad # <<>>
           THEN MainExit("UnknownReference", bad)
           ELSE m_pc' = "roster_dup" /\ UNCHANGED m_error
    /\ UNCHANGED <<mTables, mProducts, ipaper>>
    /\ UNCHANGED <<mkVars, ccVars, tbl_authors, xmVars, mCountries, displayed>>

\* the short-codes reported by a pairwise comparison of the rows of a table,
\* one per pair (i, j), i < j, of rows with the same SHORTNAME
DuplicatedShortNames(tbl) ==
    LET RECURSIVE pairs(_, _)
        pairs(i, j) ==
            IF i > Len(tbl) THEN <<>>
            ELSE IF j > Len(tbl) THEN pairs(i + 1, i + 2)
            ELSE (IF tbl[i].SHORTNAME = tbl[j].SHORTNAME
                  THEN <<tbl[i].SHORTNAME>> ELSE <<>>)
                 \o pairs(i, j + 1)
    IN  pairs(1, 2)

\* lines 520-530: no short-code twice in the roster
MCheckRosterDuplicates ==
    /\ m_pc = "roster_dup"
    /\ LET dup == DuplicatedShortNames(tbl_authors)
       IN  IF dup # <<>>
           THEN MainExit("DuplicateKey", dup)
           ELSE m_pc' = "select" /\ UNCHANGED m_error
    /\ UNCHANGED <<mTables, mProducts, ipaper, m_warned>>
    /\ UNCHANGED <<mkVars, ccVars, tbl_authors, xmVars, mCountries, displayed>>

\* lines 551-563: the user enters the number of a paper
MSelectPaper ==
    /\ m_pc = "select"
    /\ \E number \in 0..(Len(tbl_papers) + 1) :
          /\ ipaper' = number - 1
          /\ IF number - 1 < 0 \/ number - 1 >= Len(tbl_papers)
             THEN MainExit("BadSelection", <<number>>)
             ELSE m_pc' = "affil_check" /\ UNCHANGED m_error
    /\ UNCHANGED <<mTables, mProducts, m_warned>>
    /\ UNCHANGED <<mkVars, ccVars, tbl_authors, xmVars, mCountries, displayed>>

\* s.replace(' ', '')
RemoveSpaces(s) == SelectSeq(s, LAMBDA c : c # " ")

\* cell.replace(' ', '').split(','), for a cell given as the fields that
\* cell.split(',') returns
FieldsNoSpace(cell) == [k \in 1..Len(cell) |-> RemoveSpaces(cell[k])]

\* the SHORTNAME column of the affiliations table
AffiliationCodes(affiliations) ==
    {affiliations[i].SHORTNAME : i \in 1..Len(affiliations)}

\* lines 574-583: the (code, author) pairs reported for the roster rows from
\* row i on, field k on
RECURSIVE UnknownAffiliations(_, _, _, _)
UnknownAffiliations(roster, i, k, affiliations) ==
    IF i > Len(roster) THEN <<>>
    ELSE LET affil_author == FieldsNoSpace(roster[i].AFFILIATIONS) IN
         IF k > Len(affil_author)
         THEN UnknownAffiliations(roster, i + 1, 1, affiliations)
         ELSE (IF affil_author[k] \notin AffiliationCodes(affiliations)
               THEN <<[code |-> affil_author[k], author |-> roster[i].AUTHOR]>>
               ELSE <<>>)
              \o UnknownAffiliations(roster, i, k + 1, affiliations)

\* lines 572-585: every affiliation of every roster author must be known
MCheckAffiliations ==
    /\ m_pc = "affil_check"
    /\ LET bad == UnknownAffiliations(tbl_authors, 1, 1, tbl_affiliations)
       IN  IF bad # <<>>
           THEN MainExit("UnknownAffiliation", bad)
           ELSE m_pc' = "ack_check" /\ UNCHANGED m_error
    /\ UNCHANGED <<mTables, mProducts, ipaper, m_warned>>
    /\ UNCHANGED <<mkVars, ccVars, tbl_authors, xmVars, mCountries, displayed>>

\* the ACKNOWLEDGEMENTS column of the acknowledgements table
AcknowledgementCodes(acks) ==
    {acks[i].ACKNOWLEDGEMENTS : i \in 1..Len(acks)}

\* lines 589-600: the (code, author) pairs reported for the roster rows from
\* row i on, field k on; a cell that is '0' is skipped
RECURSIVE UnknownAcknowledgements(_, _, _, _)
UnknownAcknowledgements(roster, i, k, acks) ==
    IF i > Len(roster) THEN <<>>
    ELSE LET ack_author == FieldsNoSpace(roster[i].ACKNOWLEDGEMENTS) IN
         IF ack_author = NoAck \/ k > Len(ack_author)
         THEN UnknownAcknowledgements(roster, i + 1, 1, acks)
         ELSE (IF ack_author[k] \notin AcknowledgementCodes(acks)
               THEN <<[code |-> ack_author[k], author |-> roster[i].AUTHOR]>>
               ELSE <<>>)
              \o UnknownAcknowledgements(roster, i, k + 1, acks)

\* lines 587-602: every acknowledgement of every roster author must be known
MCheckAcknowledgements ==
    /\ m_pc = "ack_check"
    /\ LET bad == UnknownAcknowledgements(tbl_authors, 1, 1,
                                          tbl_acknowledgements)
       IN  IF bad # <<>>
           THEN MainExit("UnknownAcknowledgement", bad)
           ELSE m_pc' = "orcid_check" /\ UNCHANGED m_error
    /\ UNCHANGED <<mTables, mProducts, ipaper, m_warned>>
    /\ UNCHANGED <<mkVars, ccVars, tbl_authors, xmVars, mCountries, displayed>>

\* the shortest string line 609 lets pass
OrcidMinLen == 16

\* the length line 616 requires of every segment
OrcidSegmentLen == 4

\* lines 606-626: the ORCID of one author is reported as invalid
BadOrcid(orcid) ==
    \/ Len(orcid) > 0 /\ Len(orcid) < OrcidMinLen
    \/ /\ Len(orcid) > 0
       /\ LET segments == SplitOn(orcid, "-")
          IN  \E k \in 1..Len(segments) : Len(segments[k]) # OrcidSegmentLen

\* lines 607-626: the authors whose ORCID is reported
InvalidOrcids(roster) ==
    LET RECURSIVE scan(_)
        scan(i) == IF i > Len(roster) THEN <<>>
                   ELSE (IF BadOrcid(roster[i].ORCID)
                         THEN <<roster[i].AUTHOR>> ELSE <<>>) \o scan(i + 1)
    IN  scan(1)

\* lines 604-630: the format of the ORCIDs
MCheckOrcids ==
    /\ m_pc = "orcid_check"
    /\ LET bad == InvalidOrcids(tbl_authors)
       IN  IF bad # <<>>
           THEN MainExit("InvalidORCID", bad)
           ELSE m_pc' = "build" /\ UNCHANGED m_error
    /\ UNCHANGED <<mTables, mProducts, ipaper, m_warned>>
    /\ UNCHANGED <<mkVars, ccVars, tbl_authors, xmVars, mCountries, displayed>>

\* lines 640-644: the roster rows of the entries of an author list, in list order
RECURSIVE RowsOf(_, _, _)
RowsOf(authors_paper, j, roster) ==
    IF j > Len(authors_paper) THEN <<>>
    ELSE SelectSeq(roster, LAMBDA row : row.SHORTNAME = authors_paper[j])
         \o RowsOf(authors_paper, j + 1, roster)

\* lines 647-657 finding nothing: no author is reported as listed twice
PaperDuplicatesNone(rows) == SubSeq(DuplicatedShortNames(rows), 1, 0)

\* lines 647-657: the short-codes reported as listed twice in the paper
PaperDuplicates(rows) == DuplicatedShortNames(rows)

\* lines 635-657: the authors of the selected paper, none of them twice
MBuildPaperAuthors ==
    /\ m_pc = "build"
    /\ LET rows == RowsOf(tbl_papers[ipaper + 1].author_list, 1, tbl_authors)
           dup == PaperDuplicates(rows)
       IN  /\ tbl_authors_paper' = rows
           /\ IF dup # <<>>
              THEN MainExit("DuplicateKey", dup)
              ELSE m_pc' = "initials" /\ UNCHANGED m_error
    /\ UNCHANGED <<mTables, INITIALS, output, ackoutput, file, ipaper, m_warned>>
    /\ UNCHANGED <<mkVars, ccVars, tbl_authors, xmVars, mCountries, displayed>>

\* mk_initials, lines 307-358, run to its end from the state of one round:
\* how it ends, the labels, and the labels it reports when it gives up
RECURSIVE MkLoop(_, _, _, _, _, _)
MkLoop(first, last, labels, N, dup, nite) ==
    IF ~AnyDuplicate(dup)
    THEN [pc |-> "returned", initials |-> labels, reported |-> <<>>]
    ELSE LET n == Len(first)
             stripped == [i \in 1..n |-> StripPrefixes(last[i])]
             bad == {i \in 1..n : FirstTokenRaises(first[i])}
             new == [i \in 1..n |-> Label(first[i], stripped[i], N[i])]
             d == Duplicates(new)
         IN  IF bad # {}
             THEN [pc |-> "IndexError", initials |-> labels, reported |-> <<>>]
             ELSE IF nite + 1 > MaxIte
             THEN [pc |-> "exit", initials |-> new, reported |-> Masked(new, d)]
             ELSE MkLoop(first, stripped, new, Widen(N, d), d, nite + 1)

\* mk_initials(first_names, last_names), lines 294-358
MkRun(first, last) ==
    MkLoop(first, last, [i \in 1..Len(first) |-> <<>>],
           [i \in 1..Len(first) |-> 1], [i \in 1..Len(first) |-> TRUE], 0)

\* line 661 and lines 663-680: the initials of the authors of the paper
MInitials ==
    /\ m_pc = "initials"
    /\ LET r == MkRun([i \in 1..Len(tbl_authors_paper) |->
                          tbl_authors_paper[i].First_Name],
                      [i \in 1..Len(tbl_authors_paper) |->
                          tbl_authors_paper[i].Last_Name])
       IN  CASE r.pc = "returned" ->
                   /\ INITIALS' = r.initials
                   /\ m_pc' = "render" /\ UNCHANGED m_error
             [] r.pc = "exit" ->
                   /\ MainExit("TooManyIterations", r.reported)
                   /\ UNCHANGED INITIALS
             [] OTHER ->
                   /\ MainRaise("IndexError", <<"mk_initials">>)
                   /\ UNCHANGED INITIALS
    /\ UNCHANGED <<mTables, tbl_authors_paper, output, ackoutput, file,
                   ipaper, m_warned>>
    /\ UNCHANGED <<mkVars, ccVars, tbl_authors, xmVars, mCountries, displayed>>

\* general.latexify_accents on one character: the keys of
\* constants.LETTER_2_LATEX are replaced, every other character is kept
LatexifyChar(c) ==
    CASE c = "o_uml" -> "\\\"o"
      [] c = "e_acute" -> "\\'e"
      [] OTHER -> c

\* general.latexify_accents, lines 193-202
latexify_accents(txt) == [i \in 1..Len(txt) |-> LatexifyChar(txt[i])]

\* str.replace takes the occurrences of ' & ' from the left without overlap:
\* the one that starts at position i is replaced unless the one that would
\* start two characters before it is
RECURSIVE AmpersandReplaced(_, _)
AmpersandReplaced(txt, i) ==
    /\ i >= 1 /\ i + 2 <= Len(txt)
    /\ SubSeq(txt, i, i + 2) = <<" ", "&", " ">>
    /\ ~AmpersandReplaced(txt, i - 2)

\* general.safe_latex, lines 182-190: txt.replace(' & ', ' \\& ')
safe_latex(txt) ==
    [k \in 1..Len(txt) |->
        IF AmpersandReplaced(txt, k - 1) THEN "\\&" ELSE txt[k]]

\* the number of blanks of txt that end right before position k
BlanksBefore(txt, k) ==
    CHOOSE n \in 0..(k - 1) :
        /\ \A j \in (k - n)..(k - 1) : txt[j] = " "
        /\ (k - n - 1 >= 1 => txt[k - n - 1] # " ")

\* output.replace('  ', ' '), line 866: the pairs of blanks are taken from
\* the left without overlap and the second blank of each pair is dropped
ReplaceDoubleSpace(txt) ==
    LET kept == SelectSeq([k \in 1..Len(txt) |-> k],
                          LAMBDA k : ~(txt[k] = " "
                                       /\ BlanksBefore(txt, k) % 2 = 1))
    IN  [j \in 1..Len(kept) |-> txt[kept[j]]]

\* '  ' in txt
HasDoubleSpace(txt) ==
    \E i \in 1..(Len(txt) - 1) : txt[i] = " " /\ txt[i + 1] = " "

\* line 866 run once, without the loop of line 865
CollapseSpacesOnce(txt) == ReplaceDoubleSpace(txt)

\* lines 865-866: the while loop
RECURSIVE CollapseSpaces(_)
CollapseSpaces(txt) ==
    IF HasDoubleSpace(txt) THEN CollapseSpaces(ReplaceDoubleSpace(txt)) ELSE txt

\* a rendering that ended in an exception
RenderRaised == [ok |-> FALSE, out |-> <<>>]

\* tbl_affiliations['AFFILIATION'] of the rows whose SHORTNAME is code
AffiliationTexts(affiliations, code) ==
    SelectSeq(affiliations, LAMBDA row : row.SHORTNAME = code)

\* lines 691-696 and 749-753: an ORCID is shown if it has more than 4 characters
ShowsOrcid(orcid) == Len(orcid) > 4

\* lines 698-703: the \affiliation lines of one author, from field k on; the
\* fields are looked up as split(',') returns them
RECURSIVE AJAffiliations(_, _, _)
AJAffiliations(cell, k, affiliations) ==
    IF k > Len(cell) THEN [ok |-> TRUE, out |-> <<>>]
    ELSE LET found == AffiliationTexts(affiliations, cell[k])
             rest == AJAffiliations(cell, k + 1, affiliations)
         IN  IF found = <<>> \/ ~rest.ok THEN RenderRaised
             ELSE [ok |-> TRUE,
                   out |-> <<"\\affiliation", "{">> \o found[1].AFFILIATION
                           \o <<"}", "\n">> \o rest.out]

\* lines 686-705: style AJ, from author i on
RECURSIVE RenderAJ(_, _, _)
RenderAJ(rows, i, affiliations) ==
    IF i > Len(rows) THEN [ok |-> TRUE, out |-> <<>>]
    ELSE LET orcid == IF ShowsOrcid(rows[i].ORCID)
                      THEN <<"[">> \o rows[i].ORCID \o <<"]">> ELSE <<>>
             affils == AJAffiliations(rows[i].AFFILIATIONS, 1, affiliations)
             rest == RenderAJ(rows, i + 1, affiliations)
         IN  IF ~affils.ok \/ ~rest.ok THEN RenderRaised
             ELSE [ok |-> TRUE,
                   out |-> <<"\\author">> \o orcid \o <<"{">> \o rows[i].AUTHOR
                           \o <<"}", "\n">> \o affils.out \o <<"\n">> \o rest.out]

\* lines 710-717 listing the codes in the order of the affiliations table
OrderedAffiliationsByTable(rows, i, k, acc) ==
    LET used == UNION {{Strip(rows[a].AFFILIATIONS[f]) :
                           f \in 1..Len(rows[a].AFFILIATIONS)} :
                       a \in 1..Len(rows)}
    IN  SelectSeq([t \in 1..Len(AffiliationList) |-> AffiliationList[t].SHORTNAME],
                  LAMBDA c : c \in used)

\* lines 710-717: ordered_affiliations, from author i, field k on, acc being
\* the list so far
RECURSIVE OrderedAffiliations(_, _, _, _)
OrderedAffiliations(rows, i, k, acc) ==
    IF i > Len(rows) THEN acc
    ELSE IF k > Len(rows[i].AFFILIATIONS)
    THEN OrderedAffiliations(rows, i + 1, 1, acc)
    ELSE LET a_str == Strip(rows[i].AFFILIATIONS[k])
         IN  OrderedAffiliations(rows, i, k + 1,
                                 IF a_str \in Range(acc) THEN acc
                                 ELSE Append(acc, a_str))

\* the position of a code in ordered_affiliations, which is the number its
\* entry of ordered_numerical_tags spells
TagOf(ordered, code) == CHOOSE t \in 1..Len(ordered) : ordered[t] = code

\* lines 731-738: the tags and commas of one annotation, from field k on
RECURSIVE AnnotationBody(_, _, _)
AnnotationBody(cell, k, ordered) ==
    IF k > Len(cell) THEN <<>>
    ELSE LET affil_str == Strip(cell[k])
         IN  <<ToString(TagOf(ordered, affil_str))>>
             \o (IF affil_str # cell[Len(cell)] THEN <<",">> ELSE <<>>)
             \o AnnotationBody(cell, k + 1, ordered)

\* lines 729-743 with the corresponding-author mark given to the last author
AnnotationMarksLast(rows, i, ordered) ==
    <<"\\inst{">> \o AnnotationBody(rows[i].AFFILIATIONS, 1, ordered)
        \o (IF i = Len(rows) THEN <<",", "*">> ELSE <<>>) \o <<"}">>

\* lines 729-743: affil_txt of author i
Annotation(rows, i, ordered) ==
    <<"\\inst{">> \o AnnotationBody(rows[i].AFFILIATIONS, 1, ordered)
        \o (IF i = 1 THEN <<",", "*">> ELSE <<>>) \o <<"}">>

\* lines 724-758: the authors of the \author block, from author i on
RECURSIVE AandaAuthors(_, _, _)
AandaAuthors(rows, i, ordered) ==
    IF i > Len(rows) THEN <<>>
    ELSE rows[i].AUTHOR \o Annotation(rows, i, ordered)
         \o (IF ShowsOrcid(rows[i].ORCID)
             THEN <<"\\orcidlink{">> \o rows[i].ORCID \o <<"}">> ELSE <<>>)
         \o (IF i # Len(rows) THEN <<",", "\n">> ELSE <<"\n">>)
         \o AandaAuthors(rows, i + 1, ordered)

\* lines 763-767: the entries of the \institute block, from tag t on
RECURSIVE InstituteEntries(_, _, _)
InstituteEntries(ordered, t, affiliations) ==
    IF t > Len(ordered) THEN [ok |-> TRUE, out |-> <<>>]
    ELSE LET found == AffiliationTexts(affiliations, ordered[t])
             rest == InstituteEntries(ordered, t + 1, affiliations)
         IN  IF found = <<>> \/ ~rest.ok THEN RenderRaised
             ELSE [ok |-> TRUE,
                   out |-> <<"\\inst{", ToString(t), "}">>
                           \o found[1].AFFILIATION \o <<"\\\\", "\n">>
                           \o rest.out]

\* lines 708-770: style AANDA
RenderAANDA(rows, affiliations) ==
    LET ordered == OrderedAffiliations(rows, 1, 1, <<>>)
        institute == InstituteEntries(ordered, 1, affiliations)
    IN  IF ~institute.ok \/ rows = <<>> THEN RenderRaised
        ELSE [ok |-> TRUE,
              out |-> <<"\\author{", "\n">> \o AandaAuthors(rows, 1, ordered)
                      \o <<"}", "\n", "\n">>
                      \o <<"\\institute{", "\n">> \o institute.out
                      \o <<"\\inst{*}", "\\email{", rows[1].EMAIL, "}", "\n">>
                      \o <<"}", "\n">>]

\* lines 682-776: the author block of the selected paper
MRender ==
    /\ m_pc = "render"
    /\ LET paper_style == Upper(tbl_papers[ipaper + 1].STYLE)
           r == IF paper_style = "AJ"
                THEN RenderAJ(tbl_authors_paper, 1, tbl_affiliations)
                ELSE IF paper_style = "AANDA"
                THEN RenderAANDA(tbl_authors_paper, tbl_affiliations)
                ELSE RenderRaised
       IN  IF r.ok
           THEN /\ output' = safe_latex(latexify_accents(r.out))
                /\ displayed' = output'
                /\ m_pc' = "rendered" /\ UNCHANGED m_error
           ELSE /\ MainRaise(IF paper_style \in ALLOWED_PAPER_STYLES
                             THEN "IndexError" ELSE "ValueError", <<"render">>)
                /\ UNCHANGED <<output, displayed>>
    /\ UNCHANGED <<mTables, tbl_authors_paper, INITIALS, ackoutput, file,
                   ipaper, m_warned>>
    /\ UNCHANGED <<mkVars, ccVars, tbl_authors, xmVars, mCountries>>

\* the rows of the acknowledgements table whose code is ack
AcknowledgementRows(acks, ack) ==
    SelectSeq(acks, LAMBDA row : row.ACKNOWLEDGEMENTS = ack)

\* a test for the placeholder that never finds it
HasPlaceholderNever(txt) == HasChar(txt, "{NEVER}")

\* '{INITIALS}' in txt
HasPlaceholder(txt) == HasChar(txt, "{INITIALS}")

\* lines 789-820: the paper-level acknowledgements from field k on: how the
\* loop ends, the code it names when it ends the run, and the text it adds
RECURSIVE PaperAcknowledgements(_, _, _)
PaperAcknowledgements(fields, k, acks) ==
    IF k > Len(fields) THEN [pc |-> "ok", code |-> <<>>, out |-> <<>>]
    ELSE IF fields[k] = <<"0">> THEN PaperAcknowledgements(fields, k + 1, acks)
    ELSE LET found == AcknowledgementRows(acks, fields[k])
         IN  IF found = <<>>
             THEN [pc |-> "unknown", code |-> fields[k], out |-> <<>>]
             ELSE IF HasPlaceholder(found[1].ACKNOWLEDGEMENTS_TEXT)
             THEN [pc |-> "template", code |-> fields[k], out |-> <<>>]
             ELSE LET rest == PaperAcknowledgements(fields, k + 1, acks)
                  IN  IF rest.pc # "ok" THEN rest
                      ELSE [pc |-> "ok", code |-> <<>>,
                            out |-> found[1].ACKNOWLEDGEMENTS_TEXT
                                    \o <<"\\\\", "\n">> \o rest.out]

\* lines 823-830: unique_acknowledgements, from author i, field k on, acc
\* being the list so far
RECURSIVE UniqueAcknowledgements(_, _, _, _)
UniqueAcknowledgements(rows, i, k, acc) ==
    IF i > Len(rows) THEN acc
    ELSE LET ack2 == FieldsNoSpace(rows[i].ACKNOWLEDGEMENTS) IN
         IF k > Len(ack2) THEN UniqueAcknowledgements(rows, i + 1, 1, acc)
         ELSE UniqueAcknowledgements(rows, i, k + 1,
                  IF ack2[k] = <<"0">> \/ ack2[k] \in Range(acc) THEN acc
                  ELSE Append(acc, ack2[k]))

\* ','.join(fields): a cell as the sheet holds it
RECURSIVE RawCell(_)
RawCell(fields) ==
    IF Len(fields) <= 1 THEN (IF fields = <<>> THEN <<>> ELSE fields[1])
    ELSE fields[1] \o <<",">> \o RawCell(Tail(fields))

\* sub in txt, for strings
IsSubstring(sub, txt) ==
    \E i \in 0..(Len(txt) - Len(sub)) : SubSeq(txt, i + 1, i + Len(sub)) = sub

\* lines 834-837: the initials of the authors whose cell contains uack
Who(rows, labels, uack) ==
    LET RECURSIVE scan(_)
        scan(in_ack) ==
            IF in_ack > Len(rows) THEN <<>>
            ELSE (IF IsSubstring(uack, RawCell(rows[in_ack].ACKNOWLEDGEMENTS))
                  THEN <<labels[in_ack]>> ELSE <<>>) \o scan(in_ack + 1)
    IN  scan(1)

\* ', '.join(strs)
RECURSIVE JoinCommaSpace(_)
JoinCommaSpace(strs) ==
    IF Len(strs) <= 1 THEN (IF strs = <<>> THEN <<>> ELSE strs[1])
    ELSE strs[1] \o <<",", " ">> \o JoinCommaSpace(Tail(strs))

\* lines 840-843: who_txt, for a non-empty who
WhoTxt(who) ==
    IF Len(who) > 1
    THEN JoinCommaSpace(SubSeq(who, 1, Len(who) - 1)) \o <<" ", "\\&", " ">>
         \o who[Len(who)] \o <<" ">>
    ELSE who[1] \o <<" ">>

\* txt.replace('{INITIALS}', who_txt)
RECURSIVE ReplacePlaceholder(_, _)
ReplacePlaceholder(txt, who_txt) ==
    IF txt = <<>> THEN <<>>
    ELSE (IF txt[1] = "{INITIALS}" THEN who_txt ELSE <<txt[1]>>)
         \o ReplacePlaceholder(Tail(txt), who_txt)

\* lines 833-852: the author-level acknowledgements from the code at
\* position iuack on
RECURSIVE AuthorAcknowledgements(_, _, _, _, _)
AuthorAcknowledgements(rows, labels, uacks, iuack, acks) ==
    IF iuack > Len(uacks) THEN [ok |-> TRUE, out |-> <<>>]
    ELSE LET who == Who(rows, labels, uacks[iuack])
             found == AcknowledgementRows(acks, uacks[iuack])
             rest == AuthorAcknowledgements(rows, labels, uacks, iuack + 1, acks)
         IN  IF who = <<>> \/ found = <<>> \/ ~rest.ok THEN RenderRaised
             ELSE [ok |-> TRUE,
                   out |-> (IF HasPlaceholder(found[1].ACKNOWLEDGEMENTS_TEXT)
                            THEN ReplacePlaceholder(found[1].ACKNOWLEDGEMENTS_TEXT,
                                                    WhoTxt(who))
                            ELSE found[1].ACKNOWLEDGEMENTS_TEXT)
                           \o (IF iuack # Len(uacks) THEN <<"\\\\", "\n">>
                               ELSE <<>>)
                           \o rest.out]

\* lines 786-854: the acknowledgements of the selected paper
MAcknowledgements ==
    /\ m_pc = "rendered"
    /\ LET paper == PaperAcknowledgements(
                        FieldsNoSpace(tbl_papers[ipaper + 1].ACKNOWLEDGEMENTS),
                        1, tbl_acknowledgements)
           uacks == UniqueAcknowledgements(tbl_authors_paper, 1, 1, <<>>)
           authors == AuthorAcknowledgements(tbl_authors_paper, INITIALS,
                                             uacks, 1, tbl_acknowledgements)
       IN  CASE paper.pc = "unknown" ->
                   /\ MainExit("UnknownPaperAcknowledgement", <<paper.code>>)
                   /\ UNCHANGED ackoutput
             [] paper.pc = "template" ->
                   /\ MainExit("BadTemplate", <<paper.code>>)
                   /\ UNCHANGED ackoutput
             [] paper.pc = "ok" /\ ~authors.ok ->
                   /\ MainRaise("IndexError", <<"acknowledgements">>)
                   /\ ackoutput' = paper.out
             [] OTHER ->
                   /\ ackoutput' = latexify_accents(paper.out \o authors.out)
                   /\ m_pc' = "acks_done" /\ UNCHANGED m_error
    /\ UNCHANGED <<mTables, tbl_authors_paper, INITIALS, output, file,
                   ipaper, m_warned>>
    /\ UNCHANGED <<mkVars, ccVars, tbl_authors, xmVars, mCountries, displayed>>

\* the file written as soon as the author block is rendered
ReadyToWriteEarly(pc) == pc \in {"rendered", "acks_done"}

\* line 869 is reached: the acknowledgements were assembled
ReadyToWrite(pc) == pc = "acks_done"

\* lines 862-870: the output file
MWrite ==
    /\ ReadyToWrite(m_pc)
    /\ output' = CollapseSpaces(output \o <<"\n", "\n">> \o ackoutput)
    /\ file' = [written |-> TRUE, name |-> tbl_papers[ipaper + 1].key,
                content |-> output']
    /\ m_pc' = "done"
    /\ UNCHANGED <<mTables, tbl_authors_paper, INITIALS, ackoutput, ipaper,
                   m_warned, m_error>>
    /\ UNCHANGED <<mkVars, ccVars, tbl_authors, xmVars, mCountries, displayed>>

\* the roster with the AFFILIATIONS and ORCID cells of its rows replaced
RosterWith(affils, orcids) ==
    [i \in 1..Len(RosterList) |->
        [RosterList[i] EXCEPT !.AFFILIATIONS = affils[i], !.ORCID = orcids[i]]]

\* the AFFILIATIONS cells the roster may hold, as cell.split(',') sees them:
\* "x,y", "x, y", "y,x", "x", "y, x,y", "x,q", "q"
AffiliationCellPool ==
    { << <<"x">>, <<"y">> >>, << <<"x">>, <<" ", "y">> >>,
      << <<"y">>, <<"x">> >>, << <<"x">> >>,
      << <<"y">>, <<" ", "x">>, <<"y">> >>,
      << <<"x">>, <<"q">> >>, << <<"q">> >> }

\* an ORCID group of four characters
OrcidGroup == <<"0", "0", "0", "0">>

\* the ORCID cells the roster may hold after read_google_sheet_csv: none, one
\* of four groups, one of five groups, one whose last group has five
\* characters, and one of sixteen characters without a hyphen
OrcidPool ==
    { <<>>,
      OrcidGroup \o <<"-">> \o OrcidGroup \o <<"-">> \o OrcidGroup \o <<"-">>
          \o OrcidGroup,
      OrcidGroup \o <<"-">> \o OrcidGroup \o <<"-">> \o OrcidGroup \o <<"-">>
          \o OrcidGroup \o <<"-">> \o OrcidGroup,
      OrcidGroup \o <<"-">> \o OrcidGroup \o <<"-">> \o OrcidGroup \o <<"-">>
          \o OrcidGroup \o <<"0">>,
      OrcidGroup \o OrcidGroup \o OrcidGroup \o OrcidGroup }

\* the papers of the runs in which the roster varies: the two authors in
\* either order, and the second author alone
RosterPaperLists == { <<"a1", "a2">>, <<"a2", "a1">>, <<"a2">> }

\* the sheets have the required columns; the AFFILIATIONS and ORCID cells of
\* the roster vary
MainInitRoster ==
    /\ \E affils \in [1..Len(RosterList) -> AffiliationCellPool],
          orcids \in [1..Len(RosterList) -> OrcidPool] :
          /\ \/ \A i \in 1..Len(RosterList) : orcids[i] = <<>>
             \/ affils = [i \in 1..Len(RosterList) |-> RosterList[i].AFFILIATIONS]
          /\ tbl_authors = RosterWith(affils, orcids)
    /\ \E style \in ALLOWED_PAPER_STYLES, list \in RosterPaperLists :
          tbl_papers = << [key |-> PaperKeys[1], STYLE |-> style,
                           author_list |-> list, ACKNOWLEDGEMENTS |-> NoAck] >>
    /\ tbl_columns = RequiredColumns
    /\ MainStart

\* the roster of the runs in which the acknowledgements vary: RosterList and
\* a third author
AckRosterList ==
    RosterList \o
    << [AUTHOR |-> <<"C", "y">>, SHORTNAME |-> "a3",
        First_Name |-> <<"c">>, Last_Name |-> <<"x", "y">>,
        ORCID |-> <<>>, EMAIL |-> "cy@x",
        AFFILIATIONS |-> << <<"x">> >>,
        ACKNOWLEDGEMENTS |-> NoAck] >>

\* the ACKNOWLEDGEMENTS cells a roster author may hold, as cell.split(',')
\* sees them: "0", "A", "AB", "A,AB", "A, P", "A B", "Z"
AuthorAckPool ==
    { NoAck, << <<"A">> >>, << <<"A", "B">> >>, << <<"A">>, <<"A", "B">> >>,
      << <<"A">>, <<" ", "P">> >>, << <<"A", " ", "B">> >>, << <<"Z">> >> }

\* the ACKNOWLEDGEMENTS cells a paper may hold, as cell.split(',') sees
\* them: "0", "P", "P,A", "Z,A", "P, P", "A,Z"
PaperAckPool ==
    { NoAck, << <<"P">> >>, << <<"P">>, <<"A">> >>, << <<"Z">>, <<"A">> >>,
      << <<"P">>, <<" ", "P">> >>, << <<"A">>, <<"Z">> >> }

\* the papers of the runs in which the acknowledgements vary
AckPaperLists == { <<"a1", "a2", "a3">>, <<"a3", "a1">> }

\* the sheets have the required columns; the ACKNOWLEDGEMENTS cells of the
\* roster and of the paper vary
MainInitAck ==
    /\ \E cells \in [1..Len(AckRosterList) -> AuthorAckPool] :
          tbl_authors = [i \in 1..Len(AckRosterList) |->
                            [AckRosterList[i] EXCEPT !.ACKNOWLEDGEMENTS = cells[i]]]
    /\ \E cell \in PaperAckPool, list \in AckPaperLists :
          tbl_papers = << [key |-> PaperKeys[1], STYLE |-> "AJ",
                           author_list |-> list, ACKNOWLEDGEMENTS |-> cell] >>
    /\ tbl_columns = RequiredColumns
    /\ MainStart

\* RosterList and a third author with the names of the first one
NamesakeRosterList ==
    RosterList \o
    << [RosterList[1] EXCEPT !.SHORTNAME = "a3", !.AUTHOR = <<"B", "o", "b">>] >>

\* the papers of the runs in which the columns vary
ColumnsPaperLists == { <<"a1", "a2">>, <<"a3", "a2", "a1">> }

\* the columns of the sheets vary; two authors of the roster have the same
\* first and last name
MainInitColumns ==
    /\ tbl_authors = NamesakeRosterList
    /\ \E style \in ALLOWED_PAPER_STYLES, list \in ColumnsPaperLists :
          tbl_papers = << [key |-> PaperKeys[1], STYLE |-> style,
                           author_list |-> list,
                           ACKNOWLEDGEMENTS |-> NoAck] >>
    /\ tbl_columns \in ColumnSets
    /\ MainStart

\* the display texts the first affiliation may have: "InstX, Canada",
\* "A&M, Canada", "R & D, Canada", "R & & D, Canada", "I   X, Canada" (three
\* blanks), "éX, Canada", "Canada", "InstX,Canada", "InstX, Korea, Republic
\* of", "InstX, Atlantis", "InstX" and "InstX, Congo"
AffiliationTextPool ==
    { <<"InstX", ",", " ", "Canada">>,
      <<"A", "&", "M", ",", " ", "Canada">>,
      <<"R", " ", "&", " ", "D", ",", " ", "Canada">>,
      <<"R", " ", "&", " ", "&", " ", "D", ",", " ", "Canada">>,
      <<"I", " ", " ", " ", "X", ",", " ", "Canada">>,
      <<"e_acute", "X", ",", " ", "Canada">>,
      <<"Canada">>,
      <<"InstX", ",", "Canada">>,
      <<"InstX", ",", " ", "Korea", ",", " ", "Republic", " ", "of">>,
      <<"InstX", ",", " ", "Atlantis">>,
      <<"InstX">>,
      <<"InstX", ",", " ", "Congo">> }

\* the display names the first author may have: "Bo" and "B&ö"
AuthorNamePool == { <<"B", "o">>, <<"B", "&", "o_uml">> }

\* the AFFILIATIONS cells the first author may have: "x,y" and "q"
TextAffiliationCells == { << <<"x">>, <<"y">> >>, << <<"q">> >> }

\* an acknowledgements table whose texts hold blanks in a row, an
\* ampersand and an accented letter
TextAcknowledgementList ==
    << [ACKNOWLEDGEMENTS |-> <<"A">>,
        ACKNOWLEDGEMENTS_TEXT |->
            <<"{INITIALS}", " ", "t", "h", "a", "n", "k", " ", "&", " ",
              "e_acute", ".">>],
       [ACKNOWLEDGEMENTS |-> <<"P">>,
        ACKNOWLEDGEMENTS_TEXT |->
            <<"F", "u", "n", "d", " ", " ", " ", " ", "o_uml", ".">>] >>

\* one paper of the two roster authors; the texts of the sheets vary
MainInitTexts ==
    /\ \E name \in AuthorNamePool, cell \in TextAffiliationCells :
          tbl_authors =
              << [RosterList[1] EXCEPT !.AUTHOR = name, !.AFFILIATIONS = cell,
                                       !.ACKNOWLEDGEMENTS = << <<"A">> >>],
                 RosterList[2] >>
    /\ \E style \in ALLOWED_PAPER_STYLES, ack \in {NoAck, << <<"P">> >>} :
          tbl_papers = << [key |-> PaperKeys[1], STYLE |-> style,
                           author_list |-> <<"a1", "a2">>,
                           ACKNOWLEDGEMENTS |-> ack] >>
    /\ \E text \in AffiliationTextPool :
          tbl_affiliations =
              << [AffiliationList[1] EXCEPT !.AFFILIATION = text],
                 AffiliationList[2] >>
    /\ tbl_acknowledgements = TextAcknowledgementList
    /\ tbl_columns = RequiredColumns
    /\ MainFresh

----------------------------------------------------------------------------
(* Specifications *)

InitInitials == MkInit /\ CcIdle /\ XmIdle /\ MainIdle /\ tbl_authors = <<>>

NextInitials == MkRound \/ MkReturn

SpecInitials == InitInitials /\ [][NextInitials]_vars

InitColumns == CcInit /\ MkIdle /\ XmIdle /\ MainIdle /\ tbl_authors = <<>>

NextColumns == CheckColumns

SpecColumns == InitColumns /\ [][NextColumns]_vars

InitMatch == XmInit /\ MkIdle /\ CcIdle /\ MainIdle

NextMatch == XReadInput \/ XMatch \/ XDisplay \/ XEmit

SpecMatch == InitMatch /\ [][NextMatch]_vars

InitMain == MainInit /\ MkIdle /\ CcIdle /\ XmIdle

NextMain ==
    \/ MCheckColumns
    \/ MCheckCountries
    \/ MCheckRosterColumns
    \/ MAuthorCountries
    \/ MCheckStyles
    \/ MCheckAuthorsExist
    \/ MCheckRosterDuplicates
    \/ MSelectPaper
    \/ MCheckAffiliations
    \/ MCheckAcknowledgements
    \/ MCheckOrcids
    \/ MBuildPaperAuthors
    \/ MInitials
    \/ MRender
    \/ MAcknowledgements
    \/ MWrite

SpecMain == InitMain /\ [][NextMain]_vars

InitRoster == MainInitRoster /\ MkIdle /\ CcIdle /\ XmIdle

SpecRoster == InitRoster /\ [][NextMain]_vars

InitAck == MainInitAck /\ MkIdle /\ CcIdle /\ XmIdle

SpecAck == InitAck /\ [][NextMain]_vars

InitTexts == MainInitTexts /\ MkIdle /\ CcIdle /\ XmIdle

SpecTexts == InitTexts /\ [][NextMain]_vars

InitAll ==
    /\ \/ MainInit \/ MainInitRoster \/ MainInitAck \/ MainInitColumns
       \/ MainInitTexts
    /\ MkIdle /\ CcIdle /\ XmIdle

SpecAll == InitAll /\ [][NextMain]_vars

----------------------------------------------------------------------------
(* Properties of mk_initials, checked under SpecInitials *)

\* C1: whenever mk_initials returns normally it returns one label per input
\* person and no two people have the same label.
ThmC1_ReturnedLabelsUnique ==
    mk_pc = "returned" =>
        /\ Len(initials) = Len(first_names)
        /\ Len(initials) = Len(arg_last_names)
        /\ \A i, j \in 1..Len(initials) : i # j => initials[i] # initials[j]

\* a return after a collision of two or more people was resolved by widening
WitC1_CollisionResolved ==
    /\ mk_pc = "returned"
    /\ Len(initials) >= 2
    /\ Nite >= 2
    /\ \E i \in 1..Len(Nlast) : Nlast[i] >= 2

\* C2: for people whose first and last names are non-empty, mk_initials
\* never aborts with an error other than too-many-iterations, and on return
\* every label is non-empty and built from that person's own names.
CexC2_NonEmptyNamesNeverAbort ==
    (\A i \in 1..Len(first_names) :
        first_names[i] # <<>> /\ arg_last_names[i] # <<>>) =>
        /\ mk_pc # "IndexError"
        /\ mk_pc = "returned" =>
              \A i \in 1..Len(initials) :
                  /\ initials[i] # <<>>
                  /\ \E w \in 1..(MaxIte + 1) :
                        initials[i] = Label(first_names[i], last_names[i], w)

\* removal of exactly one leading "de " or "da " (case-insensitive)
StripOnePrefix(ln) ==
    IF \/ StartsWith(LowerStr(ln), <<"d", "e", " ">>)
       \/ StartsWith(LowerStr(ln), <<"d", "a", " ">>)
    THEN DropChars(ln, 3)
    ELSE ln

\* C3: over the whole run exactly one "de "/"da " prefix is removed from a
\* last name: after any number of rounds the last name in use is the
\* caller's last name without its first prefix.
CexC3_OnePrefixRemoved ==
    \A i \in 1..Len(last_names) :
        /\ last_names[i] \in {arg_last_names[i], StripOnePrefix(arg_last_names[i])}
        /\ Nite >= 1 => last_names[i] = StripOnePrefix(arg_last_names[i])

\* C4: every width starts at 1, never decreases, and grows by exactly 1 in a
\* round if and only if that person's label of that round equals the label
\* of somebody else.
ThmC4_WidthGrowsIffCollision ==
    /\ \A i \in 1..Len(Nlast) : Nlast[i] = 1
    /\ [][ \A i \in 1..Len(Nlast) :
              /\ Nlast'[i] >= Nlast[i]
              /\ Nlast'[i] \in {Nlast[i], Nlast[i] + 1}
              /\ (Nlast'[i] = Nlast[i] + 1) <=>
                    /\ Nite' = Nite + 1
                    /\ \E j \in 1..Len(initials') :
                          j # i /\ initials'[j] = initials'[i] ]_vars

\* three people of whom two collided and were widened and one was not
WitC4_OnlyCollidersWidened ==
    /\ mk_pc = "returned"
    /\ \E i, j \in 1..Len(Nlast) : Nlast[i] >= 2 /\ Nlast[j] = 1

\* C5: whenever mk_initials ends with the too-many-iterations failure, the
\* list of labels it reports is non-empty and each reported label is held by
\* at least two people in the last generated round.
CexC5_FailureReportsCollisions ==
    mk_pc = "exit" =>
        /\ reported # <<>>
        /\ \A k \in 1..Len(reported) :
              Cardinality({i \in 1..Len(initials) : initials[i] = reported[k]}) >= 2

----------------------------------------------------------------------------
(* Properties of xmatch_authors.main, checked under SpecMatch *)

\* the names the user entered: the stripped fields that are not blank
RECURSIVE EnteredNames(_)
EnteredNames(fields) ==
    IF fields = <<>> THEN <<>>
    ELSE (IF Strip(Head(fields)) # <<>> THEN <<Strip(Head(fields))>> ELSE <<>>)
         \o EnteredNames(Tail(fields))

\* C6: the matcher never raises; for every entered list of names and every
\* roster it produces exactly one result row per entered name, with the
\* 'NO MATCH' short-code where the name is not matched.
CexC6_MatcherNeverRaises ==
    /\ x_pc # "raised"
    /\ x_pc = "done" =>
          /\ Len(matches) = Len(EnteredNames(input_fields))
          /\ \A k \in 1..Len(matches) :
                /\ matches[k].INPUT_NAMES = EnteredNames(input_fields)[k]
                /\ matches[k].SCORE <= score_min => matches[k].SHORTNAME = NoMatch

\* the highest score of a normalized name against the roster
BestScore(q) ==
    CHOOSE v \in ScoreValues :
        /\ \E a \in Range(tbl_authors) : ratio[<<q, normalize_name(a.AUTHOR)>>] = v
        /\ \A a \in Range(tbl_authors) : ratio[<<q, normalize_name(a.AUTHOR)>>] <= v

CexC8_MergedListIffAllAbove ==
    (x_pc = "done" \/ (x_pc = "raised" /\ x_error = "ValueError")) =>
        /\ x_emitted <=> (\A k \in 1..Len(tbl_out) : tbl_out[k].SCORE > score_min)
        /\ x_emitted =>
              /\ Len(merged_short) = Len(tbl_out)
              /\ \A k \in 1..Len(merged_short) : merged_short[k] # NoMatch

----------------------------------------------------------------------------
(* Properties of check_columns, checked under SpecColumns *)

\* C9: check_columns returns True if and only if the set of the table's
\* column names equals the set of required names, whatever the order;
\* otherwise it ends the run, naming a missing column when one is missing
\* and otherwise an unexpected extra column.
ThmC9_CheckColumnsExactSet ==
    cc_pc # "idle" /\ cc_pc # "call" =>
        /\ cc_pc \in {"returned", "exit"}
        /\ (cc_pc = "returned") <=> (Range(tbl_keys) = Range(colnames))
        /\ cc_pc = "returned" => cc_error.kind = "none"
        /\ cc_pc = "exit" =>
              IF Range(colnames) \ Range(tbl_keys) # {}
              THEN /\ cc_error.kind = "missing"
                   /\ cc_error.col \in Range(colnames) \ Range(tbl_keys)
              ELSE /\ cc_error.kind = "extra"
                   /\ cc_error.col \in Range(tbl_keys) \ Range(colnames)

\* a table with the required columns in another order is accepted
WitC9_AcceptedInAnotherOrder ==
    /\ cc_pc = "returned"
    /\ Len(tbl_keys) >= 2
    /\ tbl_keys # colnames

----------------------------------------------------------------------------
(* Properties of general.main, checked under SpecMain *)

\* the (paper, entry) pairs of the papers table whose entry is not a
\* short-code of the roster; the empty entry is such an entry
EntriesNotInRoster ==
    UNION {{[paper |-> tbl_papers[i].key, author |-> tbl_papers[i].author_list[k]] :
               k \in {n \in 1..Len(tbl_papers[i].author_list) :
                         tbl_papers[i].author_list[n] \notin ShortNames(tbl_authors)}} :
           i \in 1..Len(tbl_papers)}

\* the run is past the cross-reference check of lines 501-518
PastAuthorsExist ==
    /\ m_pc \notin {"idle", "columns", "countries", "roster_columns",
                    "author_countries", "styles", "authors_exist"}
    /\ m_error.kind \notin {"UnresolvedStyle", "SchemaMismatch",
                            "InvalidCountry"}

\* the stages at which the authors of the paper were selected without a
\* duplicate
PaperBuilt == {"initials", "render", "rendered", "acks_done", "done"}

\* C10 as stated: if the author list of any paper contains an entry that is
\* not a short-code of the roster, the empty entry of a doubled or trailing
\* comma included, the run fails with an unknown-reference error naming that
\* entry and no paper is rendered.
CexC10_AnyUnknownEntryFails ==
    (PastAuthorsExist /\ EntriesNotInRoster # {}) =>
        /\ m_pc = "exit"
        /\ m_error.kind = "UnknownReference"
        /\ EntriesNotInRoster \subseteq Range(m_error.names)
        /\ output = NoOutput

\* C10 as amended: once the style check has passed, a non-empty entry of any
\* paper that is not a short-code of the roster ends the run at the
\* cross-reference check, with every such entry reported and no paper
\* rendered; empty entries are only warned about, do not end the run and give
\* no author of the paper.
ThmC10_UnknownNonEmptyEntryFails ==
    PastAuthorsExist =>
        LET bad == {e \in EntriesNotInRoster : e.author # ""}
            empty == {e \in EntriesNotInRoster : e.author = ""}
        IN  /\ {m_warned[k] : k \in 1..Len(m_warned)} = {e.paper : e \in empty}
            /\ IF bad # {}
               THEN /\ m_pc = "exit"
                    /\ m_error.kind = "UnknownReference"
                    /\ Range(m_error.names) = bad
                    /\ output = NoOutput
                    /\ tbl_authors_paper = <<>>
               ELSE /\ m_error.kind # "UnknownReference"
                    /\ m_pc \in PaperBuilt =>
                          /\ \A r \in Range(tbl_authors_paper) : r.SHORTNAME # ""
                          /\ Len(tbl_authors_paper) =
                                Cardinality({k \in 1..Len(tbl_papers[ipaper + 1].author_list) :
                                                tbl_papers[ipaper + 1].author_list[k] # ""})

\* the run ended at the cross-reference check because of an unknown entry of
\* the second paper, the first paper holding known entries and an empty one
WitC10_UnknownEntryInSecondPaper ==
    /\ m_pc = "exit"
    /\ m_error.kind = "UnknownReference"
    /\ Len(tbl_papers) >= 2
    /\ \A k \in 1..Len(m_error.names) : m_error.names[k].paper = tbl_papers[2].key
    /\ m_warned # <<>>

----------------------------------------------------------------------------
(* Properties of general.main from the selected paper to the output file *)

\* the short-codes the author list of the selected paper names more than once
TwiceInSelectedPaper ==
    LET list == tbl_papers[ipaper + 1].author_list
    IN  {list[n] : n \in {k \in 1..Len(list) :
                             /\ list[k] # ""
                             /\ \E m \in 1..Len(list) : m # k /\ list[m] = list[k]}}

\* C11: once the authors of the selected paper are collected, a short-code
\* that the author list names twice ends the run with a duplicate-author error
\* naming it, before initials are assigned: the failure is never the
\* too-many-iterations failure of mk_initials, nothing is rendered and no file
\* is written.
ThmC11_DuplicateInPaperFailsBeforeInitials ==
    (tbl_authors_paper # <<>> /\ TwiceInSelectedPaper # {}) =>
        /\ m_pc = "exit"
        /\ m_error.kind = "DuplicateKey"
        /\ TwiceInSelectedPaper \subseteq Range(m_error.names)
        /\ INITIALS = <<>>
        /\ output = NoOutput
        /\ ~file.written

\* the run ended at the duplicate check of the selected paper, whose authors
\* were collected from a list that names one of them twice
WitC11_DuplicateInPaperReported ==
    /\ m_pc = "exit"
    /\ m_error.kind = "DuplicateKey"
    /\ Len(tbl_authors_paper) >= 2
    /\ TwiceInSelectedPaper # {}

\* the (code, author) pairs of the roster whose code, blanks removed, is not a
\* short-code of the affiliations table
OffendingAffiliations ==
    UNION {{[code |-> RemoveSpaces(tbl_authors[i].AFFILIATIONS[k]),
             author |-> tbl_authors[i].AUTHOR] :
               k \in {f \in 1..Len(tbl_authors[i].AFFILIATIONS) :
                         RemoveSpaces(tbl_authors[i].AFFILIATIONS[f])
                             \notin AffiliationCodes(tbl_affiliations)}} :
           i \in 1..Len(tbl_authors)}

\* C12 as stated: a run that ends at the affiliation-reference check has
\* reported every offending (code, author) pair, and a run that passed this
\* check resolves every affiliation code of every author of the selected
\* paper during rendering, in both styles: rendering never fails on a lookup.
CexC12_ValidatedAffiliationsResolve ==
    /\ (m_pc = "exit" /\ m_error.kind = "UnknownAffiliation") =>
           Range(m_error.names) = OffendingAffiliations
    /\ (m_pc = "raised" /\ OffendingAffiliations = {}) =>
           m_error.names # <<"render">>

\* an ORCID of the form XXXX-XXXX-XXXX-XXXX: exactly four groups, separated
\* by hyphens, of exactly four characters
WellFormedOrcid(orcid) ==
    LET groups == SplitOn(orcid, "-")
    IN  /\ Len(groups) = 4
        /\ \A k \in 1..Len(groups) : Len(groups[k]) = 4

\* C13 as stated: a run that ends at the ORCID check names an author whose
\* ORCID is neither empty nor of the form XXXX-XXXX-XXXX-XXXX, and a run that
\* passed the ORCID check has a roster in which every ORCID is empty or of
\* that form.
CexC13_OnlyFourGroupsAccepted ==
    /\ (m_pc = "exit" /\ m_error.kind = "InvalidORCID") =>
           Range(m_error.names) =
               {tbl_authors[i].AUTHOR :
                   i \in {r \in 1..Len(tbl_authors) :
                             /\ tbl_authors[r].ORCID # <<>>
                             /\ ~WellFormedOrcid(tbl_authors[r].ORCID)}}
    /\ (m_pc = "build" \/ tbl_authors_paper # <<>>) =>
           \A i \in 1..Len(tbl_authors) :
               \/ tbl_authors[i].ORCID = <<>>
               \/ WellFormedOrcid(tbl_authors[i].ORCID)

\* the style of the selected paper
SelectedStyle == Upper(tbl_papers[ipaper + 1].STYLE)

\* the author block of the selected paper was rendered in the given style
RenderedIn(style) == output # NoOutput /\ SelectedStyle = style

\* the places (author, field) of the affiliation codes of the paper's authors
CodePlaces ==
    UNION {{<<i, k>> : k \in 1..Len(tbl_authors_paper[i].AFFILIATIONS)} :
           i \in 1..Len(tbl_authors_paper)}

\* the affiliation code at a place, without the blanks around it
CodeAt(p) == Strip(tbl_authors_paper[p[1]].AFFILIATIONS[p[2]])

\* the distinct affiliation codes of the paper's authors
PaperCodes == {CodeAt(p) : p \in CodePlaces}

\* place p is not after place q: authors in paper order, codes in listed order
NotAfter(p, q) == p[1] < q[1] \/ (p[1] = q[1] /\ p[2] <= q[2])

\* the place where a code appears first
FirstPlace(code) ==
    CHOOSE p \in CodePlaces :
        /\ CodeAt(p) = code
        /\ \A q \in CodePlaces : CodeAt(q) = code => NotAfter(p, q)

\* the number of a code in order of first appearance
RankOf(code) ==
    Cardinality({d \in PaperCodes : NotAfter(FirstPlace(d), FirstPlace(code))})

\* the position of the \institute block in the output
InstitutePos == CHOOSE p \in 1..Len(output) : output[p] = "\\institute{"

\* the positions where an annotation of an author opens, and where an entry
\* of the institute block opens
InstOpenings(from, to) == {p \in from..to : output[p] = "\\inst{"}

\* the position of the brace that closes what opens at p
ClosingOf(p) ==
    CHOOSE q \in (p + 1)..Len(output) :
        output[q] = "}" /\ \A r \in (p + 1)..(q - 1) : output[r] # "}"

\* the positions of the tags inside the annotations of the authors
AnnotationTagPositions ==
    {q \in 1..InstitutePos :
        /\ output[q] \notin {",", "*"}
        /\ \E p \in InstOpenings(1, InstitutePos) : p < q /\ q < ClosingOf(p)}

\* the entries of the institute block, as (tag, text), in output order
InstituteBlock ==
    LET opens == InstOpenings(InstitutePos, Len(output))
        nth(k) == CHOOSE p \in opens : Cardinality({o \in opens : o <= p}) = k
        lineEnd(p) == CHOOSE q \in p..Len(output) :
                          output[q] = "\\\\" /\ \A r \in p..(q - 1) : output[r] # "\\\\"
    IN  [k \in 1..Cardinality(opens) |->
            [tag |-> output[nth(k) + 1],
             text |-> SubSeq(output, nth(k) + 3, lineEnd(nth(k)) - 1)]]

\* C14: in style AANDA the distinct affiliation codes of the paper's authors
\* are tagged 1..n in order of first appearance: the institute block lists,
\* for k = 1..n, tag k with the text of the k-th first-seen code, the tags in
\* the annotations of the authors are exactly 1..n, and the first occurrence
\* of tag k comes before the first occurrence of tag k + 1.
ThmC14_TagsInOrderOfFirstAppearance ==
    RenderedIn("AANDA") =>
        LET n == Cardinality(PaperCodes)
            firstOf(t) == CHOOSE q \in AnnotationTagPositions :
                              /\ output[q] = t
                              /\ \A r \in AnnotationTagPositions :
                                     output[r] = t => q <= r
        IN  /\ Len(InstituteBlock) = n
            /\ \A c \in PaperCodes :
                   /\ RankOf(c) \in 1..n
                   /\ InstituteBlock[RankOf(c)].tag = ToString(RankOf(c))
                   /\ InstituteBlock[RankOf(c)].text =
                          AffiliationTexts(tbl_affiliations, c)[1].AFFILIATION
            /\ {output[q] : q \in AnnotationTagPositions} =
                   {ToString(k) : k \in 1..n}
            /\ \A k \in 1..(n - 1) : firstOf(ToString(k)) < firstOf(ToString(k + 1))
            /\ \A p \in CodePlaces :
                   \E q \in AnnotationTagPositions :
                       output[q] = ToString(RankOf(CodeAt(p)))

\* an AANDA paper was rendered whose first author lists the second code of
\* the affiliations table before the first one
WitC14_SecondCodeSeenFirst ==
    /\ RenderedIn("AANDA")
    /\ Cardinality(PaperCodes) = 2
    /\ CodeAt(<<1, 1>>) = tbl_affiliations[2].SHORTNAME
    /\ Len(tbl_authors_paper) = 2

\* what stands between the braces of the annotation of author i
AnnotationOf(i) ==
    LET opens == InstOpenings(1, InstitutePos)
        p == CHOOSE o \in opens : Cardinality({q \in opens : q <= o}) = i
    IN  SubSeq(output, p + 1, ClosingOf(p) - 1)

\* the tags of the codes of author i in listed order, separated by single
\* commas
RECURSIVE TagsWithCommas(_, _)
TagsWithCommas(i, k) ==
    IF k > Len(tbl_authors_paper[i].AFFILIATIONS) THEN <<>>
    ELSE (IF k > 1 THEN <<",">> ELSE <<>>)
         \o <<ToString(RankOf(CodeAt(<<i, k>>)))>>
         \o TagsWithCommas(i, k + 1)

\* C15 as stated: in style AANDA the annotation of every author holds exactly
\* the tags of the author's codes in listed order, separated by single commas
\* with no leading, trailing or doubled comma, and the annotation of the first
\* author additionally ends with the corresponding-author mark.
CexC15_AnnotationIsCommaSeparatedTags ==
    RenderedIn("AANDA") =>
        \A i \in 1..Len(tbl_authors_paper) :
            AnnotationOf(i) =
                TagsWithCommas(i, 1) \o (IF i = 1 THEN <<",", "*">> ELSE <<>>)

\* the paper of C16 was rendered: authors A (a1; x, y) and B (a2; x) in this
\* order, style AANDA
TwoAuthorPaperRendered ==
    /\ RenderedIn("AANDA")
    /\ Len(tbl_authors_paper) = 2
    /\ tbl_authors_paper[1].SHORTNAME = "a1"
    /\ tbl_authors_paper[1].AFFILIATIONS = << <<"x">>, <<"y">> >>
    /\ tbl_authors_paper[2].SHORTNAME = "a2"
    /\ tbl_authors_paper[2].AFFILIATIONS = << <<"x">> >>

\* the institute block has exactly the entries 1 (x) and 2 (y)
TwoInstituteEntries ==
    InstituteBlock =
        << [tag |-> "1",
            text |-> AffiliationTexts(tbl_affiliations, <<"x">>)[1].AFFILIATION],
           [tag |-> "2",
            text |-> AffiliationTexts(tbl_affiliations, <<"y">>)[1].AFFILIATION] >>

\* C16 as stated: with authors A (a1; x, y) and B (a2; x) and a paper listing
\* a1,a2 in style AANDA, the institute block has exactly the entries 1 (x) and
\* 2 (y), A is tagged \inst{1,2} and B is tagged \inst{1}.
CexC16_FirstAuthorTaggedWithoutMark ==
    TwoAuthorPaperRendered =>
        /\ TwoInstituteEntries
        /\ AnnotationOf(1) = <<"1", ",", "2">>
        /\ AnnotationOf(2) = <<"1">>

\* C16 as amended: in that paper the institute block has exactly the entries
\* 1 (x) and 2 (y), A, being the first author, is tagged \inst{1,2,*} and B
\* is tagged \inst{1}.
ThmC16_FirstAuthorTaggedWithMark ==
    TwoAuthorPaperRendered =>
        /\ TwoInstituteEntries
        /\ AnnotationOf(1) = <<"1", ",", "2", ",", "*">>
        /\ AnnotationOf(2) = <<"1">>

\* the paper of C16 was rendered and written to the output file
WitC16_TwoAuthorPaperWritten ==
    /\ TwoAuthorPaperRendered
    /\ tbl_papers[ipaper + 1].author_list = <<"a1", "a2">>
    /\ m_pc = "done"

\* the \affiliation lines of author i for the codes from the k-th on
RECURSIVE AffiliationLines(_, _)
AffiliationLines(i, k) ==
    IF k > Len(tbl_authors_paper[i].AFFILIATIONS) THEN <<>>
    ELSE <<"\\affiliation", "{">>
         \o AffiliationTexts(tbl_affiliations, CodeAt(<<i, k>>))[1].AFFILIATION
         \o <<"}", "\n">> \o AffiliationLines(i, k + 1)

\* for each author from the i-th on, one \author line, with the ORCID in
\* square brackets exactly when the author has one, then the author's
\* \affiliation lines and an empty line
RECURSIVE AuthorLines(_)
AuthorLines(i) ==
    IF i > Len(tbl_authors_paper) THEN <<>>
    ELSE <<"\\author">>
         \o (IF tbl_authors_paper[i].ORCID # <<>>
             THEN <<"[">> \o tbl_authors_paper[i].ORCID \o <<"]">> ELSE <<>>)
         \o <<"{">> \o tbl_authors_paper[i].AUTHOR \o <<"}", "\n">>
         \o AffiliationLines(i, 1) \o <<"\n">> \o AuthorLines(i + 1)

\* C17 as stated: in style AJ the rendering of a validated paper completes
\* for every AFFILIATIONS value that passed the affiliation-reference check,
\* and the author block is, for each author in paper order, one \author line
\* followed by one \affiliation line per code of the author in listed order.
CexC17_AJRendersEveryValidatedPaper ==
    (INITIALS # <<>> /\ SelectedStyle = "AJ" /\ m_pc # "render") =>
        /\ ~(m_pc = "raised" /\ m_error.names = <<"render">>)
        /\ m_pc = "rendered" => output = AuthorLines(1)

\* the acknowledgement codes listed at paper level for the selected paper, in
\* listed order, blanks removed, the '0' entries left out
PaperAckCodes ==
    SelectSeq(FieldsNoSpace(tbl_papers[ipaper + 1].ACKNOWLEDGEMENTS),
              LAMBDA c : c # <<"0">>)

\* the template text of a code of the acknowledgements table
TemplateOf(code) ==
    (CHOOSE row \in Range(tbl_acknowledgements) :
         row.ACKNOWLEDGEMENTS = code).ACKNOWLEDGEMENTS_TEXT

\* the code is in the acknowledgements table
KnownAck(code) ==
    \E row \in Range(tbl_acknowledgements) : row.ACKNOWLEDGEMENTS = code

\* the code is in the table and its template holds the placeholder
TemplateWithInitials(code) ==
    KnownAck(code) /\ \E k \in 1..Len(TemplateOf(code)) :
                          TemplateOf(code)[k] = "{INITIALS}"

\* the acknowledgements of the selected paper were assembled, or the run
\* ended while assembling them
AcknowledgementsReached == output # NoOutput /\ m_pc # "rendered"

\* the templates of the paper-level codes from the k-th on, one after the other
RECURSIVE PaperTextsVerbatim(_)
PaperTextsVerbatim(k) ==
    IF k > Len(PaperAckCodes) THEN <<>>
    ELSE TemplateOf(PaperAckCodes[k]) \o PaperTextsVerbatim(k + 1)

\* the templates of the paper-level codes from the k-th on, accents in LaTeX
\* form, each followed by a LaTeX line break and a newline
RECURSIVE PaperTextLines(_)
PaperTextLines(k) ==
    IF k > Len(PaperAckCodes) THEN <<>>
    ELSE [j \in 1..Len(TemplateOf(PaperAckCodes[k])) |->
             LatexifyChar(TemplateOf(PaperAckCodes[k])[j])]
         \o <<"\\\\", "\n">> \o PaperTextLines(k + 1)

FirstFatalPaperAck ==
    LET fatal == {k \in 1..Len(PaperAckCodes) :
                     \/ ~KnownAck(PaperAckCodes[k])
                     \/ TemplateWithInitials(PaperAckCodes[k])}
    IN  IF fatal = {} THEN 0 ELSE CHOOSE k \in fatal : \A j \in fatal : k <= j

ListedInitials(code) ==
    LET RECURSIVE scan(_)
        scan(i) ==
            IF i > Len(tbl_authors_paper) THEN <<>>
            ELSE (IF code \in Range(FieldsNoSpace(tbl_authors_paper[i].ACKNOWLEDGEMENTS))
                  THEN <<INITIALS[i]>> ELSE <<>>) \o scan(i + 1)
    IN  scan(1)

\* the author-level acknowledgements for the distinct codes from the k-th on,
\* the placeholder of each template replaced by the initials of the authors
\* who list the code
RECURSIVE AuthorTextsFor(_, _)
AuthorTextsFor(codes, k) ==
    IF k > Len(codes) THEN <<>>
    ELSE ReplacePlaceholder(TemplateOf(codes[k]), WhoTxt(ListedInitials(codes[k])))
         \o (IF k # Len(codes) THEN <<"\\\\", "\n">> ELSE <<>>)
         \o AuthorTextsFor(codes, k + 1)

\* C19 as stated: for each distinct author-level code of the selected paper
\* the initials put in place of {INITIALS} are exactly those of the authors
\* whose acknowledgement list holds the code as one of its comma-separated
\* codes, in paper order, joined by ', ' with an ampersand before the last;
\* an author who lists only other codes is not included.
CexC19_InitialsOfAuthorsListingTheCode ==
    m_pc \in {"acks_done", "done"} =>
        LET codes == UniqueAcknowledgements(tbl_authors_paper, 1, 1, <<>>)
            authors == AuthorTextsFor(codes, 1)
        IN  ackoutput = PaperTextLines(1)
                        \o [j \in 1..Len(authors) |-> LatexifyChar(authors[j])]

\* every check of the run passes on the tables and on the selected paper
EveryCheckPasses ==
    /\ \A t \in DOMAIN RequiredColumns :
           Range(tbl_columns[t]) = Range(RequiredColumns[t])
    /\ \A i \in 1..Len(tbl_affiliations) :
           LastField(tbl_affiliations[i].AFFILIATION) \in country_list
    /\ \A i \in 1..Len(tbl_papers) :
           Upper(tbl_papers[i].STYLE) \in ALLOWED_PAPER_STYLES
    /\ \A e \in EntriesNotInRoster : e.author = ""
    /\ \A i, j \in 1..Len(tbl_authors) :
           i # j => tbl_authors[i].SHORTNAME # tbl_authors[j].SHORTNAME
    /\ ipaper \in 0..(Len(tbl_papers) - 1)
    /\ OffendingAffiliations = {}
    /\ \A i \in 1..Len(tbl_authors) :
           \/ FieldsNoSpace(tbl_authors[i].ACKNOWLEDGEMENTS) = NoAck
           \/ \A c \in Range(FieldsNoSpace(tbl_authors[i].ACKNOWLEDGEMENTS)) : KnownAck(c)
    /\ \A i \in 1..Len(tbl_authors) :
           \/ tbl_authors[i].ORCID = <<>>
           \/ /\ Len(tbl_authors[i].ORCID) >= OrcidMinLen
              /\ \A g \in Range(SplitOn(tbl_authors[i].ORCID, "-")) :
                     Len(g) = OrcidSegmentLen
    /\ TwiceInSelectedPaper = {}
    /\ Len(INITIALS) = Len(tbl_authors_paper)
    /\ \A i, j \in 1..Len(INITIALS) : i # j => INITIALS[i] # INITIALS[j]
    /\ FirstFatalPaperAck = 0

\* C20: a run that ended with a fatal condition (wrong column set, unknown
\* reference, duplicate key, malformed ORCID, disallowed style, too many
\* iterations, {INITIALS} in a paper-level template) or with an exception has
\* not created the file <paper key>_coauthors.tex; the file exists only at
\* the end of a run in which every check has passed, under the key of the
\* selected paper and with the final output as content.
ThmC20_FileOnlyAfterEveryCheck ==
    /\ m_pc \in {"exit", "raised"} => file = NoFile
    /\ m_pc # "done" => file = NoFile
    /\ m_pc = "done" =>
           /\ EveryCheckPasses
           /\ m_error = NoError
           /\ file = [written |-> TRUE, name |-> tbl_papers[ipaper + 1].key,
                      content |-> output]

\* the run ended on {INITIALS} in a paper-level template, the last of the
\* fatal conditions, after the author block was rendered
WitC20_FatalAfterRendering ==
    /\ m_pc = "exit"
    /\ m_error.kind = "BadTemplate"
    /\ output # NoOutput
    /\ file = NoFile

----------------------------------------------------------------------------
(* Further properties of mk_initials, checked under SpecInitials *)

\* two people of the input whose first-name tokens and prefix-stripped last
\* names are the same
SamePerson(i, j) ==
    /\ ~FirstTokenRaises(first_names[i]) /\ ~FirstTokenRaises(first_names[j])
    /\ FirstToken(first_names[i]) = FirstToken(first_names[j])
    /\ StripPrefixes(arg_last_names[i]) = StripPrefixes(arg_last_names[j])

\* C25: mk_initials terminates for every input: it runs at most 11
\* label-generation rounds and ends either by returning, as soon as a round
\* has no collision, or by the too-many-iterations failure; two people with
\* the same first-name token and prefix-stripped last name always end in
\* the failure.
CexC25_EndsByReturnOrTooManyIterations ==
    /\ Nite <= MaxIte + 1
    /\ mk_pc \in {"idle", "loop", "returned", "exit"}
    /\ mk_pc = "returned" => ~AnyDuplicate(duplicate)
    /\ mk_pc = "exit" => Nite = MaxIte + 1 /\ AnyDuplicate(duplicate)
    /\ mk_pc = "returned" =>
           \A i, j \in 1..Len(first_names) : i # j => ~SamePerson(i, j)

\* C26: in every widening round a person who was in no collision in the
\* previous round keeps the width and the label of the previous round; only
\* the labels of the people who collided change.
CexC26_NonCollidersKeepLabel ==
    [][(mk_pc = "loop" /\ Nite >= 1 /\ mk_pc' \in {"loop", "exit"}) =>
           \A i \in 1..Len(initials) :
               ~duplicate[i] =>
                   /\ initials'[i] = initials[i]
                   /\ Nlast'[i] \in {Nlast[i], Nlast[i] + 1}]_vars

\* the parts of a compound name and the separator between them
PartsOf(name) ==
    IF HasChar(name, " ") THEN SplitOn(name, " ")
    ELSE IF HasChar(name, "-") THEN SplitOn(name, "-")
    ELSE <<name>>

SeparatorOf(name) ==
    IF HasChar(name, " ") THEN <<" ">>
    ELSE IF HasChar(name, "-") THEN <<"-">>
    ELSE <<>>

\* the first w letters of every part, joined by the separator
RECURSIVE JoinedParts(_, _, _)
JoinedParts(parts, sep, w) ==
    IF Len(parts) = 1 THEN TakeChars(parts[1], w)
    ELSE TakeChars(parts[1], w) \o sep \o JoinedParts(Tail(parts), sep, w)

\* the width the last round used for person i
UsedWidth(i) == IF duplicate[i] THEN Nlast[i] - 1 ELSE Nlast[i]

\* C27: the token of a compound name holds a contribution of every part,
\* the first letter of each part of a first name and the first w letters of
\* each part of a last name, joined by the separator of the name; a name
\* of one part contributes its first letter or its first w letters.
CexC27_EveryPartJoinedBySeparator ==
    (mk_pc \in {"loop", "returned", "exit"} /\ Nite >= 1) =>
        \A i \in 1..Len(initials) :
            initials[i] =
                JoinedParts(PartsOf(first_names[i]),
                            SeparatorOf(first_names[i]), 1)
                \o JoinedParts(PartsOf(last_names[i]),
                               SeparatorOf(last_names[i]), UsedWidth(i))

----------------------------------------------------------------------------
(* Properties of the order of the matcher's output, checked under SpecMatch *)

\* what lines 61-66 compute for the entered names, in the order of entry
ComputedMatches ==
    [k \in 1..Len(input_coauthors) |-> MatchOne(input_coauthors[k])]

\* the rows in every order
Orderings(rows) ==
    LET n == Len(rows) IN
    { [k \in 1..n |-> rows[p[k]]] :
          p \in {q \in [1..n -> 1..n] : \A i, j \in 1..n : i # j => q[i] # q[j]} }

\* the rows follow the position of the matched entry in the roster
ByRosterPosition(rows) ==
    \A j, k \in 1..Len(rows) : j < k => rows[j].ID <= rows[k].ID

\* the result lines and the merged list show the rows in this order
ShownAs(rows) ==
    /\ display = [k \in 1..Len(rows) |-> DisplayLine(rows[k])]
    /\ x_emitted => merged_short = [k \in 1..Len(rows) |-> rows[k].SHORTNAME]

\* C28: without --sort the displayed results and the merged short-code list
\* follow the order of entry; with --sort both are ordered by the matched
\* entry's position in the roster sorted by last name; in both modes every
\* entered name keeps the score and the short-code computed for it.
CexC28_OutputOrderFollowsSortFlag ==
    x_pc = "done" =>
        IF sorted
        THEN \E rows \in Orderings(ComputedMatches) :
                 ByRosterPosition(rows) /\ ShownAs(rows)
        ELSE ShownAs(ComputedMatches)

\* C29: whenever the merged short-code list is emitted it holds each roster
\* short-code at most once, also when two entered names best-match the same
\* roster author.
CexC29_MergedListHasNoRepeat ==
    x_emitted =>
        \A i, j \in 1..Len(merged_short) :
            i # j => merged_short[i] # merged_short[j]

----------------------------------------------------------------------------
(* Properties of the rendered text and of the countries of general.main *)

\* C21: every fatal condition is detected before any rendering: in a run
\* that ends with a fatal error no part of the author block was produced or
\* displayed, in particular not when a paper-level acknowledgement code is
\* unknown or its template holds {INITIALS}.
CexC21_NothingRenderedBeforeFatalError ==
    m_pc = "exit" => output = NoOutput /\ displayed = NoOutput

\* C22: in the rendered author block of both styles every literal ampersand
\* of the source data is escaped as \&, whatever surrounds it, and applying
\* safe_latex a second time changes nothing.
CexC22_EveryAmpersandEscapedOnce ==
    displayed # NoOutput =>
        /\ ~HasChar(displayed, "&")
        /\ safe_latex(displayed) = displayed

\* the accented letters that have an entry in LETTER_2_LATEX
AccentedLetters == {c \in {"o_uml", "e_acute"} : LatexifyChar(c) # c}

\* an accented letter or two blanks in a row are in a text of the sheets
\* that the written file shows
SourceNeedsCleaning ==
    /\ \E i \in 1..Len(tbl_affiliations) :
           /\ HasDoubleSpace(tbl_affiliations[i].AFFILIATION)
           /\ \E a \in 1..Len(tbl_authors_paper) :
                  tbl_affiliations[i].SHORTNAME
                      \in Range(tbl_authors_paper[a].AFFILIATIONS)
    /\ \E a \in 1..Len(tbl_authors_paper) :
           Range(tbl_authors_paper[a].AUTHOR) \cap AccentedLetters # {}
    /\ HasDoubleSpace(ackoutput)

\* C23: the text written to the output file never holds two blanks in a row
\* and holds none of the accented letters that have an entry in
\* LETTER_2_LATEX, in the author block as well as in the acknowledgements.
ThmC23_FileHasNoDoubleSpaceNoAccent ==
    file.written =>
        /\ ~HasDoubleSpace(file.content)
        /\ Range(file.content) \cap AccentedLetters = {}

WitC23_CleanedTextWritten ==
    /\ file.written
    /\ SourceNeedsCleaning
    /\ tbl_papers[ipaper + 1].ACKNOWLEDGEMENTS # NoAck

\* the text ends with ', ' and the country
EndsWithCountry(v, country) ==
    /\ Len(v) >= Len(country) + 2
    /\ SubSeq(v, Len(v) - Len(country) - 1, Len(v)) = <<",", " ">> \o country

\* the countries of the affiliations an author lists
OwnCountries(author) ==
    {affil_country[r] :
         r \in {q \in 1..Len(tbl_affiliations) :
                   \E k \in 1..Len(author.AFFILIATIONS) :
                       tbl_affiliations[q].SHORTNAME
                           = Strip(author.AFFILIATIONS[k])}}

\* C24: the country of an affiliation is the text after the last ', ' of its
\* display text; if that is not a valid country, in particular when the text
\* has no ', <Country>' ending, the run fails naming the affiliation, so no
\* author is ever given an empty or a wrong country.
CexC24_CountryValidatedAndAssigned ==
    /\ affil_country # <<>> =>
           \A i \in 1..Len(tbl_affiliations) :
               /\ affil_country[i] = LastField(tbl_affiliations[i].AFFILIATION)
               /\ affil_country[i] \in country_list
               /\ EndsWithCountry(tbl_affiliations[i].AFFILIATION,
                                  affil_country[i])
    /\ m_error.kind = "InvalidCountry" =>
           \E i \in 1..Len(tbl_affiliations) :
               /\ m_error.names[1] = tbl_affiliations[i].AFFILIATION
               /\ LastField(tbl_affiliations[i].AFFILIATION) \notin country_list
    /\ author_country # <<>> =>
           \A a \in 1..Len(tbl_authors) :
               /\ author_country[a] # {}
               /\ author_country[a] = OwnCountries(tbl_authors[a])

\* C30: for every country C of country_list(), an affiliation whose display
\* text is '<institute>, C' passes the country validation and is given the
\* country C, also when C itself holds a comma.
CexC30_EveryListedCountryValidates ==
    m_pc \notin {"idle", "columns", "countries"} =>
        \A i \in 1..Len(tbl_affiliations) :
            \A c \in country_list :
                EndsWithCountry(tbl_affiliations[i].AFFILIATION, c) =>
                    /\ ~(/\ m_error.kind = "InvalidCountry"
                         /\ m_error.names[1] = tbl_affiliations[i].AFFILIATION)
                    /\ affil_country # <<>> => affil_country[i] = c

====
